---- MODULE Spec2Model ----
(***************************************************************************)
(* Verification model of the CastleRooms booking pipeline:                 *)
(*   - YesPlanApiService (rate guard, request, fetchEvents,                *)
(*     findContactByName, normalizeEvent)                                  *)
(*   - filter_events_by_booker and the App's filtered_events               *)
(*                                                                         *)
(* Strings of the program are modelled as follows.  An endpoint is a      *)
(* record [segs, query]: the sequence of its '/'-separated path segments  *)
(* and the text after '?'.  An error message is the sequence of its text   *)
(* fragments, so that String.includes is membership of a fragment and      *)
(* startsWith is equality of the first fragment.                           *)
(***************************************************************************)
EXTENDS Integers, Sequences, FiniteSets, TLC

VARIABLES
  last_endpoint,            \* YesPlanApiService.last_endpoint
  consecutive_call_count,   \* YesPlanApiService.consecutive_call_count
  contact_cache,            \* YesPlanApiService.contact_cache
  reqlog,                   \* history of request() calls, in start order
  fe,                       \* the frame of the running fetchEvents call
  fc,                       \* the frames of the findContactByName calls
  raw_record,                \* argument of normalizeEvent
  normalized,               \* result of normalizeEvent
  now,                      \* the wall clock read by new Date()
  events,                   \* App.events
  selected_booker,          \* App.selected_booker
  event_contacts_map,       \* App.event_contacts_map
  filter_result,            \* result of filter_events_by_booker
  current_date,             \* Calendar.current_date
  props_filtered_events,    \* Calendar's prop filtered_events
  rendered_days,            \* the calendar_days the Calendar has rendered
  month_call,               \* arguments of filterEventsForMonth
  month_result,             \* result of filterEventsForMonth
  call,                     \* the frame of the running single-request operation
  page_obs,                 \* history: the pagination block of the last page of
                            \* fetchEvents, kept by the specifications that observe it
  shape_call,               \* argument and result of extractEndpointPath
  fr,                       \* the frame of the running fetchResources call
  modal,                    \* the booking-details modal and its parent's selection
  hash_call                 \* argument and result of hashString

vars == <<last_endpoint, consecutive_call_count, contact_cache, reqlog, fe, fc,
          raw_record, normalized, now, events, selected_booker,
          event_contacts_map, filter_result, current_date,
          props_filtered_events, rendered_days, month_call, month_result,
          call, page_obs, shape_call, fr, modal, hash_call>>

clientVars == <<last_endpoint, consecutive_call_count, contact_cache>>
normVars == <<raw_record, normalized, now>>
appVars == <<events, selected_booker, event_contacts_map, filter_result>>
viewVars == <<current_date, props_filtered_events, rendered_days, month_call,
             month_result, call>>
auxVars == <<shape_call, fr, modal, hash_call>>
calVars == <<viewVars, page_obs, auxVars>>

(***************************************************************************)
(* Bounds                                                                  *)
(***************************************************************************)
MaxLog == 7
MaxEvents == 2
MaxCalls == 3
MaxLookups == 6
MaxFilterEvents == 2
MaxCalEvents == 2
MaxOps == 9
MaxWait == 1
MaxResourceCalls == 2
MaxSelections == 3
MaxNameLen == 7
MaxClientCalls == 2
MaxPageCalls == 1
MaxSegments == 3

(***************************************************************************)
(* Values                                                                  *)
(***************************************************************************)
NoEndpoint == <<"<null>">>

RATE_LIMIT == 5

RangeOf(s) == {s[i] : i \in DOMAIN s}

(***************************************************************************)
(* Endpoints                                                               *)
(***************************************************************************)
Endpoint(segs, query) == [segs |-> segs, query |-> query]

EventIds == {"123", "456"}

EventDetailsEndpoint(event_id) == Endpoint(<<"event", event_id>>, "")
EventResourcesEndpoint(event_id) == Endpoint(<<"event", event_id, "resources">>, "")
EventContactsEndpoint(event_id) == Endpoint(<<"event", event_id, "contacts">>, "")

endpoint_keywords ==
  {"events", "event", "resources", "resource",
   "contacts", "contact", "locations", "location"}

singular_resources == {"event", "contact", "resource", "location"}

\* Mutant: every segment after a singular resource name becomes the
\* placeholder, a keyword too
extractEndpointPath_keywords_too(endpoint) ==
  LET segments == SelectSeq(endpoint.segs, LAMBDA s : s # "")
  IN [i \in DOMAIN segments |->
        IF i > 1 /\ segments[i - 1] \in singular_resources
        THEN "{id}"
        ELSE segments[i]]

\* extractEndpointPath: the query is dropped, empty segments (leading,
\* trailing and doubled slashes) vanish, and a segment that follows a
\* singular resource name and is no keyword becomes the placeholder.
extractEndpointPath(endpoint) ==
  LET segments == SelectSeq(endpoint.segs, LAMBDA s : s # "")
      is_after_singular_resource(i) ==
        i > 1 /\ segments[i - 1] \in singular_resources
  IN [i \in DOMAIN segments |->
        IF is_after_singular_resource(i) /\ segments[i] \notin endpoint_keywords
        THEN "{id}"
        ELSE segments[i]]

(***************************************************************************)
(* Errors                                                                  *)
(***************************************************************************)
Err(kind, msg) == [kind |-> kind, msg |-> msg]
Includes(msg, fragment) == \E i \in DOMAIN msg : msg[i] = fragment

RateLimitError ==
  Err("Error", <<"Rate limit exceeded: More than 5 consecutive calls to the same endpoint">>)

checkRateLimit_early(le, count, endpoint) ==
  LET endpoint_path == extractEndpointPath(endpoint)
  IN IF le = endpoint_path
     THEN [last_endpoint |-> le,
           consecutive_call_count |-> count + 1,
           throws |-> count + 1 >= RATE_LIMIT]
     ELSE [last_endpoint |-> endpoint_path,
           consecutive_call_count |-> 1,
           throws |-> FALSE]

\* Mutant: the counter starts again after a rejection
checkRateLimit_reset_on_reject(le, count, endpoint) ==
  LET endpoint_path == extractEndpointPath(endpoint)
  IN IF le = endpoint_path
     THEN [last_endpoint |-> le,
           consecutive_call_count |-> IF count + 1 > RATE_LIMIT THEN 0 ELSE count + 1,
           throws |-> count + 1 > RATE_LIMIT]
     ELSE [last_endpoint |-> endpoint_path,
           consecutive_call_count |-> 1,
           throws |-> FALSE]

\* Mutant: the call that reaches the limit plus one is still let through
checkRateLimit_late(le, count, endpoint) ==
  LET endpoint_path == extractEndpointPath(endpoint)
  IN IF le = endpoint_path
     THEN [last_endpoint |-> le,
           consecutive_call_count |-> count + 1,
           throws |-> count > RATE_LIMIT]
     ELSE [last_endpoint |-> endpoint_path,
           consecutive_call_count |-> 1,
           throws |-> FALSE]

\* checkRateLimit: the new value of the guard's two fields and whether the
\* call throws.
checkRateLimit(le, count, endpoint) ==
  LET endpoint_path == extractEndpointPath(endpoint)
  IN IF le = endpoint_path
     THEN [last_endpoint |-> le,
           consecutive_call_count |-> count + 1,
           throws |-> count + 1 > RATE_LIMIT]
     ELSE [last_endpoint |-> endpoint_path,
           consecutive_call_count |-> 1,
           throws |-> FALSE]

\* request(), up to its await: the guard is consulted and updated; the
\* HTTP request leaves the client only when the guard admits it.
RequestStart(endpoint) ==
  LET r == checkRateLimit(last_endpoint, consecutive_call_count, endpoint)
  IN /\ last_endpoint' = r.last_endpoint
     /\ consecutive_call_count' = r.consecutive_call_count

RequestAdmitted(endpoint) ==
  ~checkRateLimit(last_endpoint, consecutive_call_count, endpoint).throws

\* An error of the upstream or of the transport, before request() sees it
HttpResponse(status, statusText) ==
  [kind |-> "http", status |-> status, statusText |-> statusText]
TransportFailure(error) == [kind |-> "transport", error |-> error]

HttpErrorResponses ==
  {HttpResponse("401", "Unauthorized"), HttpResponse("403", "Forbidden"),
   HttpResponse("404", "Not Found"), HttpResponse("429", "Too Many Requests"),
   HttpResponse("500", "Internal Server Error")}

\* What fetch() rejects with: Chrome's and Safari's TypeError, and the
\* plain Error the test suite rejects with.
TransportErrors ==
  {Err("TypeError", <<"Failed to ", "fetch">>),
   Err("TypeError", <<"Load failed">>),
   Err("Error", <<"Network error">>)}

TransportFailures == {TransportFailure(e) : e \in TransportErrors}

\* handle_error: the error thrown for a response that is not ok
handle_error(response) ==
  IF response.status = "401" THEN Err("Error", <<"Unauthorized: Invalid API key">>)
  ELSE IF response.status = "403"
  THEN Err("Error", <<"Forbidden: API key does not have permission">>)
  ELSE IF response.status = "429"
  THEN Err("Error", <<"Too Many Requests: Rate limit exceeded">>)
  ELSE IF response.status = "404"
  THEN Err("Error", <<"Not Found: Resource ", "does not exist">>)
  ELSE Err("Error", <<"API error: ", response.status, " ", response.statusText>>)

\* The catch block of request()
RequestCatch(error) ==
  IF Includes(error.msg, "401") \/ Includes(error.msg, "403") THEN error
  ELSE IF error.kind = "TypeError" /\ Includes(error.msg, "fetch")
  THEN Err("Error", <<"Network error: ">> \o error.msg)
  ELSE error

\* request(), from the settling of fetch() on: what the caller's await
\* yields for the response the network gave.
RequestSettle(response) ==
  IF response.kind = "http"
  THEN [throws |-> TRUE, error |-> RequestCatch(handle_error(response))]
  ELSE IF response.kind = "transport"
  THEN [throws |-> TRUE, error |-> RequestCatch(response.error)]
  ELSE [throws |-> FALSE, body |-> response]

(***************************************************************************)
(* JavaScript values of a raw record's fields                              *)
(***************************************************************************)
JUndefined == [t |-> "undefined", v |-> ""]
JNull == [t |-> "null", v |-> ""]
JString(s) == [t |-> "string", v |-> s]
JNamed(name) == [t |-> "object", v |-> name]      \* an object {name: name}
JObject == [t |-> "bare-object", v |-> ""]        \* an object without name
JNumber(digits) == [t |-> "number", v |-> digits] \* a number, by its decimal form
JDate(string) == [t |-> "date", v |-> string]     \* a Date, by its String() form

Truthy(x) ==
  \/ x.t \in {"object", "bare-object", "date"}
  \/ x.t = "string" /\ x.v # ""
  \/ x.t = "number" /\ x.v \notin {"0", "NaN"}

\* x || y || z
Or3(x, y, z) == IF Truthy(x) THEN x ELSE IF Truthy(y) THEN y ELSE z

\* String(x)
JsString(x) ==
  IF x.t \in {"string", "number", "date"} THEN x.v
  ELSE IF x.t \in {"object", "bare-object"} THEN "[object Object]"
  ELSE x.t

WhitespaceOnly == {" ", "   "}
Trim(s) == IF s \in WhitespaceOnly THEN "" ELSE s

(***************************************************************************)
(* Dates                                                                   *)
(***************************************************************************)
ValidDate(time) == [valid |-> TRUE, time |-> time]
InvalidDate == [valid |-> FALSE, time |-> 0]
isNaN(date) == ~date.valid

\* The date strings of the model and the instants they denote
DateOf(s) ==
  CASE s = "2024-01-18T10:00:00Z" -> ValidDate(10)
    [] s = "2024-01-18T09:00:00Z" -> ValidDate(9)
    [] s = "2024-01-20T10:00:00Z" -> ValidDate(20)
    [] s = "2024-01-18T12:00:00Z" -> ValidDate(12)
    [] s = "2024-01-18T11:00:00Z" -> ValidDate(11)
    [] s = "2024-01-20T12:00:00Z" -> ValidDate(22)
    [] s = "Thu Jan 18 2024 10:00:00 GMT+0000" -> ValidDate(10)
    [] s = "Thu Jan 18 2024 09:00:00 GMT+0000" -> ValidDate(9)
    [] s = "Sat Jan 20 2024 10:00:00 GMT+0000" -> ValidDate(20)
    [] s = "Thu Jan 18 2024 12:00:00 GMT+0000" -> ValidDate(12)
    [] s = "Thu Jan 18 2024 11:00:00 GMT+0000" -> ValidDate(11)
    [] s = "Sat Jan 20 2024 12:00:00 GMT+0000" -> ValidDate(22)
    [] s = "Sat Jan 02 2021 08:00:00 GMT+0000" -> ValidDate(100)
    [] OTHER -> InvalidDate

\* String(date): the instants of the model in the form Date.prototype.toString
\* gives them
DateString(date) ==
  IF isNaN(date) THEN "Invalid Date"
  ELSE CASE date.time = 10 -> "Thu Jan 18 2024 10:00:00 GMT+0000"
         [] date.time = 9 -> "Thu Jan 18 2024 09:00:00 GMT+0000"
         [] date.time = 20 -> "Sat Jan 20 2024 10:00:00 GMT+0000"
         [] date.time = 12 -> "Thu Jan 18 2024 12:00:00 GMT+0000"
         [] date.time = 11 -> "Thu Jan 18 2024 11:00:00 GMT+0000"
         [] date.time = 22 -> "Sat Jan 20 2024 12:00:00 GMT+0000"
         [] OTHER -> "Sat Jan 02 2021 08:00:00 GMT+0000"

\* parseDate: new Date(date_string)
parseDate(date_string) == DateOf(date_string)

\* new Date()
NewDate == ValidDate(now)

(***************************************************************************)
(* normalizeEvent                                                          *)
(***************************************************************************)
\* The date taken from the value the || chain selected
ResolveDate(time_value) ==
  IF Truthy(time_value) /\ time_value.t # "null" /\ Trim(JsString(time_value)) # ""
  THEN LET date == parseDate(JsString(time_value))
       IN IF isNaN(date) THEN NewDate ELSE date
  ELSE NewDate

\* The status extraction with a string branch that yields ''
StatusValue_objects_only(status) ==
  IF Truthy(status) /\ status.t = "object" THEN status.v ELSE ""

StatusValue(status) ==
  IF Truthy(status)
  THEN IF status.t = "object" THEN status.v ELSE JsString(status)
  ELSE ""

normalizeEvent_unvalidated(raw) ==
  LET start_time == Or3(raw.starttime, raw.start, raw.defaultschedulestart)
      end_time == Or3(raw.endtime, raw.end, raw.defaultscheduleend)
  IN [id |-> IF Truthy(raw.id) THEN JsString(raw.id) ELSE "",
      name |-> IF Truthy(raw.name) THEN JsString(raw.name) ELSE "",
      start |-> IF Truthy(start_time) THEN parseDate(JsString(start_time)) ELSE NewDate,
      end |-> IF Truthy(end_time) THEN parseDate(JsString(end_time)) ELSE NewDate,
      status |-> StatusValue(raw.status),
      owner |-> raw.owner,
      raw |-> raw]

\* normalizeEvent: the canonical event of a raw record.  The passthrough
\* fields (...raw_event) are kept in the field raw, owner among them.
normalizeEvent(raw_event) ==
  LET start_time == Or3(raw_event.starttime, raw_event.start, raw_event.defaultschedulestart)
      end_time == Or3(raw_event.endtime, raw_event.end, raw_event.defaultscheduleend)
      status_value == StatusValue(raw_event.status)
      start_date == ResolveDate(start_time)
      end_date == ResolveDate(end_time)
      normalized_event ==
        [id |-> IF Truthy(raw_event.id) THEN JsString(raw_event.id) ELSE "",
         name |-> IF Truthy(raw_event.name) THEN JsString(raw_event.name) ELSE "",
         start |-> start_date,
         end |-> end_date,
         status |-> status_value,
         owner |-> raw_event.owner,
         raw |-> raw_event]
  IN [normalized_event EXCEPT
        !.start = IF isNaN(@) THEN NewDate ELSE @,
        !.end = IF isNaN(@) THEN NewDate ELSE @]

(***************************************************************************)
(* Idle values of the parts a specification does not exercise              *)
(***************************************************************************)
IdleFetch == [pc |-> "idle", calls |-> 0]
IdleContact == [pc |-> "idle"]
ContactSlots == {1, 2}
NoLookups ==
  [frame |-> [s \in ContactSlots |-> IdleContact],
   calls |-> 0, started |-> {}, completed |-> {}, resolved |-> {},
   filled |-> [n \in {} |-> JNull]]
EmptyCache == [n \in {} |-> ""]
NoContactsMap == [id \in {} |-> <<>>]
\* History of the requests of the single-request operations: the run of
\* requests of one shape that is going on, how many of them there were and
\* how many left the client, whether one of them was rejected, whether one
\* of them failed upstream or in the transport, and the shape of the last
\* rejected request
NoRun ==
  [shape |-> <<"<none>">>, requests |-> 0, sent |-> 0, rejected |-> FALSE,
   failed |-> FALSE, last_rejected |-> <<"<none>">>]
IdleCall == [pc |-> "idle", count |-> 0, run |-> NoRun]
NotObserving == [on |-> FALSE, pagination |-> <<>>]
Observing == [on |-> TRUE, pagination |-> <<>>]

InitClient ==
  /\ last_endpoint = NoEndpoint
  /\ consecutive_call_count = 0
  /\ contact_cache = EmptyCache
  /\ reqlog = <<>>
  /\ fe = IdleFetch
  /\ fc = NoLookups

InitNormIdle ==
  /\ raw_record = <<>>
  /\ normalized = <<>>
  /\ now = 100

InitAppIdle ==
  /\ events = <<>>
  /\ selected_booker = "Impro Neuf"
  /\ event_contacts_map = NoContactsMap
  /\ filter_result = <<>>

\* No Calendar is mounted
InitViewIdle ==
  /\ current_date = InvalidDate
  /\ props_filtered_events = <<>>
  /\ rendered_days = <<>>
  /\ month_call = <<>>
  /\ month_result = <<>>
  /\ call = IdleCall

InitCalIdle ==
  /\ InitViewIdle
  /\ page_obs = NotObserving

\* Nothing else is running
NoShapeCall == <<>>
IdleResources == [pc |-> "idle", calls |-> 0]
NoModal == [mounted |-> FALSE]
NoHashCall == <<>>

InitAuxIdle ==
  /\ shape_call = NoShapeCall
  /\ fr = IdleResources
  /\ modal = NoModal
  /\ hash_call = NoHashCall

(***************************************************************************)
(* The rate guard under the single-request operations                      *)
(***************************************************************************)
LogEntry(op, endpoint, admitted) ==
  [op |-> op, endpoint |-> endpoint, admitted |-> admitted]

StartSingleRequest(op, endpoint) ==
  /\ Len(reqlog) < MaxLog
  /\ RequestStart(endpoint)
  /\ reqlog' = Append(reqlog, LogEntry(op, endpoint, RequestAdmitted(endpoint)))
  /\ UNCHANGED <<contact_cache, fe, fc, normVars, appVars, calVars>>

\* fetchEventContacts(event_id), up to the await of its request
fetchEventContacts ==
  \E event_id \in EventIds :
    StartSingleRequest("fetchEventContacts", EventContactsEndpoint(event_id))

\* fetchEventResources(event_id), up to the await of its request
fetchEventResources ==
  \E event_id \in EventIds :
    StartSingleRequest("fetchEventResources", EventResourcesEndpoint(event_id))

InitGuard == InitClient /\ InitAuxIdle /\ InitCalIdle /\ InitNormIdle /\ InitAppIdle
NextGuard == fetchEventContacts \/ fetchEventResources
SpecGuard == InitGuard /\ [][NextGuard]_vars

\* Position of log entry i in its unbroken run of same-shape requests
RECURSIVE RunPosition(_, _)
RunPosition(log, i) ==
  IF i > 1 /\ extractEndpointPath(log[i - 1].endpoint) = extractEndpointPath(log[i].endpoint)
  THEN 1 + RunPosition(log, i - 1)
  ELSE 1

\* C1: a request is rejected by the rate guard exactly when it is the 6th
\* or later request of an unbroken run of requests of one normalized shape;
\* contacts calls for any ids form one run, and a contacts call that directly
\* follows a resources call is admitted.
C1_RejectedExactlyFromSixth ==
  \A i \in DOMAIN reqlog :
    /\ reqlog[i].admitted <=> RunPosition(reqlog, i) <= 5
    /\ (i > 1 /\ reqlog[i].op # reqlog[i - 1].op) => reqlog[i].admitted
    /\ (i > 5 /\ \A j \in (i - 5)..i : reqlog[j].op = reqlog[i].op) => ~reqlog[i].admitted

C1_Witness ==
  /\ Len(reqlog) = 7
  /\ \A j \in 1..6 : reqlog[j].op = "fetchEventContacts"
  /\ reqlog[1].endpoint # reqlog[6].endpoint
  /\ ~reqlog[6].admitted
  /\ reqlog[7].op = "fetchEventResources"
  /\ reqlog[7].admitted

(***************************************************************************)
(* normalizeEvent on the raw records of the model                          *)
(***************************************************************************)
\* The values a date field takes: absent, null, empty, whitespace-only,
\* unparsable, and a date string of its own.
DateFieldValues(date_string) ==
  {JUndefined, JNull, JString(""), JString("   "), JString("not a date"),
   JString(date_string)}

RawEvents ==
  [id : {JString("event-4")},
   name : {JString("Test Event 4")},
   status : {JString("confirmed")},
   owner : {JUndefined},
   starttime : DateFieldValues("2024-01-18T10:00:00Z"),
   start : DateFieldValues("2024-01-18T09:00:00Z"),
   defaultschedulestart : DateFieldValues("2024-01-20T10:00:00Z"),
   endtime : DateFieldValues("2024-01-18T12:00:00Z"),
   end : DateFieldValues("2024-01-18T11:00:00Z"),
   defaultscheduleend : DateFieldValues("2024-01-20T12:00:00Z")]

InitNorm ==
  /\ InitClient /\ InitAuxIdle /\ InitCalIdle
  /\ InitAppIdle
  /\ raw_record \in RawEvents
  /\ normalized = <<>>
  /\ now = 100

\* A call normalizeEvent(raw_record)
Normalize ==
  /\ normalized = <<>>
  /\ normalized' = <<normalizeEvent(raw_record)>>
  /\ UNCHANGED <<clientVars, reqlog, fe, fc, raw_record, now, appVars, calVars>>

NextNorm == Normalize
SpecNorm == InitNorm /\ [][NextNorm]_vars

\* C7: for every raw record normalizeEvent returns an event whose start and
\* end are valid (non-NaN) instants.
C7_DatesAlwaysValid ==
  normalized # <<>> =>
    /\ ~isNaN(normalized[1].start)
    /\ ~isNaN(normalized[1].end)

\* The unparsable and the missing cases: start falls back to the clock
C7_Witness ==
  /\ normalized # <<>>
  /\ raw_record.starttime = JString("not a date")
  /\ raw_record.endtime = JUndefined
  /\ raw_record.end = JNull
  /\ raw_record.defaultscheduleend = JString("   ")
  /\ normalized[1].start = ValidDate(now)
  /\ normalized[1].end = ValidDate(now)

\* A field is populated when it is non-null, non-empty and not whitespace-only
Populated(x) == x.t = "string" /\ Trim(x.v) # ""

FirstPopulated(x, y, z) ==
  IF Populated(x) THEN x ELSE IF Populated(y) THEN y ELSE z

\* The date the first populated field denotes (the clock when none does)
DateOfFirstPopulated(x, y, z) ==
  LET f == FirstPopulated(x, y, z)
  IN IF Populated(f) /\ ~isNaN(DateOf(f.v)) THEN DateOf(f.v) ELSE ValidDate(now)

\* C8: start is taken from the first of starttime, start,
\* defaultschedulestart that is non-null, non-empty and not whitespace-only,
\* and end likewise from endtime, end, defaultscheduleend.
C8_FirstPopulatedFieldWins ==
  normalized # <<>> =>
    /\ normalized[1].start =
         DateOfFirstPopulated(raw_record.starttime, raw_record.start,
                              raw_record.defaultschedulestart)
    /\ normalized[1].end =
         DateOfFirstPopulated(raw_record.endtime, raw_record.end,
                              raw_record.defaultscheduleend)

(***************************************************************************)
(* fetchEvents                                                             *)
(***************************************************************************)
NumUndefined == [t |-> "undefined", n |-> 0]
Num(n) == [t |-> "number", n |-> n]

\* buildEventsEndpoint: the date range, when given, is one encoded segment
buildEventsEndpoint(date_range) ==
  IF date_range # ""
  THEN Endpoint(<<"events", date_range>>, "")
  ELSE Endpoint(<<"events">>, "")

DateRanges == {"", "date%3A01-01-2024%20TO%2031-01-2024"}

\* The raw records the upstream serves
RawA ==
  [id |-> JString("event-1"), name |-> JString("Event 1"),
   status |-> JNamed("confirmed"), owner |-> JNamed("Impro Neuf"),
   starttime |-> JString("2024-01-18T10:00:00Z"), start |-> JUndefined,
   defaultschedulestart |-> JString("2024-01-18T09:00:00Z"),
   endtime |-> JString("2024-01-18T12:00:00Z"), end |-> JUndefined,
   defaultscheduleend |-> JString("2024-01-18T11:00:00Z")]

RawB ==
  [id |-> JString("event-2"), name |-> JString("Event 2"),
   status |-> JString("tentative"), owner |-> JUndefined,
   starttime |-> JNull, start |-> JUndefined,
   defaultschedulestart |-> JString("not a date"),
   endtime |-> JNull, end |-> JUndefined,
   defaultscheduleend |-> JUndefined]

PageData == {<<>>, <<RawA>>, <<RawB>>}

\* response.pagination: absent, or an object that may hold a next locator,
\* a hasMore flag, a book and a page.  A next locator is a URL that parses
\* or not, with or without book and page values.
NextLocator(parsable, book, page) ==
  [parsable |-> parsable, book |-> book, page |-> page]
PaginationAbsent ==
  [present |-> FALSE, next |-> <<>>, hasMore |-> <<>>,
   book |-> NumUndefined, page |-> NumUndefined]
PaginationNeither ==
  [present |-> TRUE, next |-> <<>>, hasMore |-> <<>>,
   book |-> NumUndefined, page |-> NumUndefined]
PaginationNext(parsable, book, page) ==
  [present |-> TRUE, next |-> <<NextLocator(parsable, book, page)>>,
   hasMore |-> <<>>, book |-> NumUndefined, page |-> NumUndefined]
PaginationFlag(hasMore, book, page) ==
  [present |-> TRUE, next |-> <<>>, hasMore |-> <<hasMore>>,
   book |-> book, page |-> page]
\* A block with a next locator and a hasMore flag
PaginationNextAndFlag(parsable, hasMore) ==
  [present |-> TRUE,
   next |-> <<IF parsable THEN NextLocator(TRUE, Num(123), Num(2))
              ELSE NextLocator(FALSE, NumUndefined, NumUndefined)>>,
   hasMore |-> <<hasMore>>, book |-> NumUndefined, page |-> NumUndefined]

ServerBooks == {NumUndefined, Num(123)}
ServerPages == {NumUndefined, Num(2)}

Paginations ==
  {PaginationAbsent, PaginationNeither}
  \cup {PaginationNext(TRUE, b, p) : b \in ServerBooks, p \in ServerPages}
  \cup {PaginationNext(FALSE, NumUndefined, NumUndefined)}
  \cup {PaginationFlag(h, b, p) : h \in BOOLEAN, b \in ServerBooks, p \in ServerPages}
  \cup {PaginationNextAndFlag(parsable, h) : parsable \in BOOLEAN, h \in BOOLEAN}

OkResponse(data, pagination) ==
  [kind |-> "ok", data |-> data, pagination |-> pagination]

OkResponses == {OkResponse(d, p) : d \in PageData, p \in Paginations}

\* A response that announces a further page
ReportsFurtherPage(response) ==
  /\ response.kind = "ok"
  /\ \/ response.pagination.next # <<>>
     \/ response.pagination.hasMore = <<TRUE>>

MapNormalize(data) == [i \in DOMAIN data |-> normalizeEvent(data[i])]

\* Mutant: the hasMore flag is looked at before the next locator
Continuation_flag_first(f, pagination) ==
  IF ~pagination.present
  THEN [f EXCEPT !.has_more = FALSE]
  ELSE IF pagination.hasMore # <<>>
  THEN [f EXCEPT
          !.has_more = pagination.hasMore[1],
          !.book = IF pagination.book.t = "number" THEN pagination.book ELSE @,
          !.page = @ + 1]
  ELSE IF pagination.next # <<>>
  THEN LET locator == pagination.next[1] IN
       IF locator.parsable
       THEN [f EXCEPT
               !.book = IF locator.book.t = "number" THEN locator.book ELSE @,
               !.page = IF locator.page.t = "number" THEN locator.page.n ELSE @,
               !.has_more = TRUE]
       ELSE [f EXCEPT !.page = @ + 1, !.has_more = TRUE]
  ELSE [f EXCEPT !.has_more = FALSE]

\* The continuation decision of fetchEvents after a page
Continuation(f, pagination) ==
  IF ~pagination.present
  THEN [f EXCEPT !.has_more = FALSE]
  ELSE IF pagination.next # <<>>
  THEN LET locator == pagination.next[1] IN
       IF locator.parsable
       THEN [f EXCEPT
               !.book = IF locator.book.t = "number" THEN locator.book ELSE @,
               !.page = IF locator.page.t = "number" THEN locator.page.n ELSE @,
               !.has_more = TRUE]
       ELSE [f EXCEPT !.page = @ + 1, !.has_more = TRUE]
  ELSE IF pagination.hasMore # <<>>
  THEN [f EXCEPT
          !.has_more = pagination.hasMore[1],
          !.book = IF pagination.book.t = "number" THEN pagination.book ELSE @,
          !.page = @ + 1]
  ELSE [f EXCEPT !.has_more = FALSE]

\* The body of the loop from the arrival of the page to the end of the
\* iteration
ProcessPage(f, body) ==
  Continuation(
    [f EXCEPT !.all_events = @ \o MapNormalize(body.data),
              !.pages_fetched = @ + 1],
    body.pagination)

\* The params of the request of an iteration: book and page, once a book
\* is known
RequestParams(f) ==
  IF f.book.t # "undefined"
  THEN <<[book |-> f.book, page |-> f.page]>>
  ELSE <<>>

FetchLoop_uncapped(f) ==
  IF f.has_more
  THEN /\ RequestStart(f.endpoint)
       /\ fe' = IF RequestAdmitted(f.endpoint)
                THEN [f EXCEPT !.pc = "awaiting", !.requests = @ + 1, !.sent = @ + 1,
                               !.params = RequestParams(f)]
                ELSE [f EXCEPT !.pc = "failed", !.requests = @ + 1,
                               !.params = RequestParams(f),
                               !.error = RateLimitError, !.cause = "guard"]
  ELSE /\ fe' = [f EXCEPT !.pc = "done", !.result = <<f.all_events>>]
       /\ UNCHANGED <<last_endpoint, consecutive_call_count>>

\* The head of the while loop: the next request is issued (and the guard
\* may reject it, which leaves fetchEvents uncaught), or the call returns
\* all_events.
FetchLoop(f) ==
  IF f.has_more /\ f.pages_fetched < f.max_pages
  THEN /\ RequestStart(f.endpoint)
       /\ fe' = IF RequestAdmitted(f.endpoint)
                THEN [f EXCEPT !.pc = "awaiting", !.requests = @ + 1, !.sent = @ + 1,
                               !.params = RequestParams(f)]
                ELSE [f EXCEPT !.pc = "failed", !.requests = @ + 1,
                               !.params = RequestParams(f),
                               !.error = RateLimitError, !.cause = "guard"]
  ELSE /\ fe' = [f EXCEPT !.pc = "done", !.result = <<f.all_events>>]
       /\ UNCHANGED <<last_endpoint, consecutive_call_count>>

MaxPagesArgs == (0 - 1)..10

\* fetchEvents(start_date, end_date, max_pages), up to its first await
CallFetchEvents ==
  \E date_range \in DateRanges, max_pages \in MaxPagesArgs :
    /\ fe.pc = "idle"
    /\ fe.calls < MaxCalls
    /\ FetchLoop([pc |-> "start",
                  calls |-> fe.calls + 1,
                  endpoint |-> buildEventsEndpoint(date_range),
                  max_pages |-> max_pages,
                  all_events |-> <<>>,
                  book |-> NumUndefined,
                  page |-> 1,
                  has_more |-> TRUE,
                  pages_fetched |-> 0,
                  requests |-> 0,
                  sent |-> 0,
                  error |-> Err("", <<>>),
                  cause |-> "",
                  result |-> <<>>,
                  served |-> <<>>,
                  all_further |-> TRUE,
                  params |-> <<>>])
    /\ UNCHANGED <<contact_cache, reqlog, fc, normVars, appVars, calVars>>

\* The awaited request of fetchEvents settles with a page
FetchEventsPage ==
  \E response \in OkResponses :
    /\ fe.pc = "awaiting"
    /\ Len(fe.all_events) + Len(response.data) <= MaxEvents
    /\ FetchLoop(ProcessPage(
         [fe EXCEPT !.served = @ \o response.data,
                    !.all_further = @ /\ ReportsFurtherPage(response)],
         RequestSettle(response).body))
    /\ page_obs' = IF page_obs.on
                   THEN [page_obs EXCEPT !.pagination = <<response.pagination>>]
                   ELSE page_obs
    /\ UNCHANGED <<contact_cache, reqlog, fc, normVars, appVars, viewVars, auxVars>>

FetchEventsError_partial ==
  \E response \in HttpErrorResponses \cup TransportFailures :
    /\ fe.pc = "awaiting"
    /\ fe' = [fe EXCEPT !.pc = "done",
                        !.result = <<fe.all_events>>,
                        !.all_further = FALSE]
    /\ UNCHANGED <<clientVars, reqlog, fc, normVars, appVars, calVars>>

\* The awaited request of fetchEvents settles with an error, which leaves
\* fetchEvents uncaught
FetchEventsError ==
  \E response \in HttpErrorResponses \cup TransportFailures :
    /\ fe.pc = "awaiting"
    /\ fe' = [fe EXCEPT !.pc = "failed",
                        !.error = RequestSettle(response).error,
                        !.cause = IF response.kind = "http" THEN response.status
                                  ELSE "transport",
                        !.all_further = FALSE]
    /\ UNCHANGED <<clientVars, reqlog, fc, normVars, appVars, calVars>>

\* The caller takes the outcome of fetchEvents
ReturnFetchEvents ==
  /\ fe.pc \in {"done", "failed"}
  /\ fe' = [pc |-> "idle", calls |-> fe.calls]
  /\ page_obs' = [page_obs EXCEPT !.pagination = <<>>]
  /\ UNCHANGED <<clientVars, reqlog, fc, normVars, appVars, viewVars, auxVars>>

InitFetch ==
  /\ InitClient /\ InitAuxIdle /\ InitCalIdle /\ InitNormIdle /\ InitAppIdle

NextFetch ==
  \/ CallFetchEvents
  \/ FetchEventsPage
  \/ FetchEventsError
  \/ ReturnFetchEvents

SpecFetch == InitFetch /\ [][NextFetch]_vars

\* C2: against a server that reports a further page on every response,
\* fetchEvents with a cap from 1 to 10 completes normally after exactly
\* max_pages requests and returns the normalized events of the fetched
\* pages in page order.
C2_CompletesAfterMaxPages ==
  (fe.pc \in {"done", "failed"} /\ fe.max_pages \in 1..10 /\ fe.all_further) =>
    /\ fe.pc = "done"
    /\ fe.sent = fe.max_pages
    /\ fe.result = <<MapNormalize(fe.served)>>

\* The state of a fetchEvents call: it has issued no more requests than
\* max_pages, it awaits a request only while pages remain under the cap,
\* and with a cap of zero or less it has returned the empty list without
\* a request.
C3_WithinCap ==
  fe.pc # "idle" =>
    /\ fe.requests <= (IF fe.max_pages > 0 THEN fe.max_pages ELSE 0)
    /\ fe.pc = "awaiting" => fe.pages_fetched < fe.max_pages
    /\ fe.max_pages <= 0 =>
         fe.pc = "done" /\ fe.requests = 0 /\ fe.result = << <<>> >>

\* A step that leaves the call awaiting has fetched one more page
C3_Progress ==
  (fe.pc = "awaiting" /\ fe'.pc = "awaiting") =>
    fe'.pages_fetched = fe.pages_fetched + 1

\* C3: fetchEvents issues at most max_pages requests and terminates: while
\* it awaits a page, max_pages - pages_fetched is positive and every page
\* that keeps it awaiting decreases it, whatever the server answers; with
\* max_pages <= 0 it issues no request and returns the empty list.
C3_TerminatesWithinCap == [](C3_WithinCap) /\ [][C3_Progress]_vars

\* The cap is reached against a server that always announces a further
\* page, and the call returns there
C3_Witness ==
  /\ fe.pc = "done"
  /\ fe.max_pages = 4
  /\ fe.requests = 4
  /\ fe.all_further
  /\ fe.has_more

\* The error request() raises for the failure of the given cause
RaisedFor(cause, error) ==
  CASE cause = "guard" -> error = RateLimitError
    [] cause = "401" -> Includes(error.msg, "Unauthorized: Invalid API key")
    [] cause = "403" -> Includes(error.msg, "Forbidden: API key does not have permission")
    [] cause = "404" -> Includes(error.msg, "does not exist")
    [] cause = "429" -> Includes(error.msg, "Too Many Requests: Rate limit exceeded")
    [] cause = "500" -> Includes(error.msg, "API error: ") /\ Includes(error.msg, "500")
    [] cause = "transport" ->
         \E e \in TransportErrors :
           \A i \in DOMAIN e.msg : Includes(error.msg, e.msg[i])
    [] OTHER -> FALSE

\* C4: when a page request fails (HTTP error status, transport error or
\* rejection by the rate guard) the call fails with the error of that
\* request, the failing request is its last one, and it returns no events,
\* whatever it had accumulated; a call that returns has seen no failure.
C4_FailureAbortsFetch ==
  /\ fe.pc = "failed" =>
       /\ RaisedFor(fe.cause, fe.error)
       /\ fe.requests = fe.pages_fetched + 1
       /\ fe.result = <<>>
  /\ fe.pc = "done" => fe.cause = "" /\ fe.requests = fe.pages_fetched

\* A page had been accumulated when a later request failed
C4_Witness ==
  /\ fe.pc = "failed"
  /\ fe.cause = "429"
  /\ Len(fe.all_events) = 2
  /\ fe.pages_fetched = 2
  /\ fe.result = <<>>

(***************************************************************************)
(* findContactByName                                                       *)
(***************************************************************************)
Names == {"Impro Neuf", "Oslo Impro Festival"}

encodeURIComponent(name) ==
  CASE name = "Impro Neuf" -> "Impro%20Neuf"
    [] name = "Oslo Impro Festival" -> "Oslo%20Impro%20Festival"
    [] OTHER -> name

ContactSearchEndpoint(name) ==
  Endpoint(<<"contacts", encodeURIComponent(name)>>, "")

\* The candidates the search endpoint answers with
Contact(id, name) == [id |-> id, name |-> name]

ContactA == Contact(JString("contact-123"), "Impro Neuf")
ContactB == Contact(JString("contact-124"), "Impro Neuf")
ContactFestival == Contact(JString("contact-456"), "Impro Neuf Festival")
ContactReversed == Contact(JString("contact-789"), "Neuf Impro")
ContactOslo == Contact(JString("contact-200"), "Oslo Impro Festival")

CandidateLists ==
  {<<>>, <<ContactA>>, <<ContactFestival, ContactReversed>>,
   <<ContactFestival, ContactB>>, <<ContactB, ContactA>>, <<ContactOslo, ContactA>>}

ContactResponses == {OkResponse(d, PaginationAbsent) : d \in CandidateLists}

ContainsMatch(contact_obj, name) ==
  \/ contact_obj.name = name
  \/ name = "Impro Neuf" /\ contact_obj.name \in {"Impro Neuf Festival"}

\* The predicate of contacts.find
ExactMatch(contact_obj, name) == contact_obj.name = name

\* contacts.find: the index of the first match, 0 when there is none
FindContact(contacts, name) ==
  IF \E i \in DOMAIN contacts : ExactMatch(contacts[i], name)
  THEN CHOOSE i \in DOMAIN contacts :
         /\ ExactMatch(contacts[i], name)
         /\ \A j \in 1..(i - 1) : ~ExactMatch(contacts[j], name)
  ELSE 0

CacheSet_dropped(cache, name, contact_id) == cache

\* contact_cache.set on a cache that keeps its last entry only
CacheSet_last_only(cache, name, contact_id) == [n \in {name} |-> contact_id]

\* contact_cache.set(name, contact_id)
CacheSet(cache, name, contact_id) ==
  [n \in DOMAIN cache \cup {name} |-> IF n = name THEN contact_id ELSE cache[n]]

\* contact_cache.get(name) || null
CachedId(cache, name) ==
  IF cache[name] # "" THEN JString(cache[name]) ELSE JNull

NewLookup(name) ==
  [pc |-> "start", name |-> name, hit |-> FALSE, sent |-> 0,
   first |-> name \notin fc.started,
   after_completed |-> name \in fc.completed,
   after_resolved |-> name \in fc.resolved,
   filler |-> <<>>,
   response |-> <<>>, result |-> JUndefined, error |-> Err("", <<>>),
   cause |-> ""]

Finished(frame) == frame.pc \in {"returned", "raised"}

Complete(lookups, slot, frame) ==
  [lookups EXCEPT
     !.frame[slot] = frame,
     !.completed = @ \cup {frame.name},
     !.resolved = IF frame.pc = "returned" /\ frame.result.t = "string"
                  THEN @ \cup {frame.name} ELSE @]

\* findContactByName(name), up to the await of its request: a cache hit
\* returns at once; on a miss the search request is issued, and a rejection
\* by the guard passes through the catch block to the caller.
CallFindContactByName ==
  \E slot \in ContactSlots, name \in Names :
    LET f == NewLookup(name)
        called == [fc EXCEPT !.calls = @ + 1, !.started = @ \cup {name}]
    IN /\ fc.frame[slot].pc = "idle"
       /\ fc.calls < MaxLookups
       /\ IF name \in DOMAIN contact_cache
          THEN /\ fc' = Complete(called, slot,
                          [f EXCEPT !.pc = "returned", !.hit = TRUE,
                                    !.filler = <<fc.filled[name]>>,
                                    !.result = CachedId(contact_cache, name)])
               /\ UNCHANGED <<last_endpoint, consecutive_call_count>>
          ELSE /\ RequestStart(ContactSearchEndpoint(name))
               /\ fc' = IF RequestAdmitted(ContactSearchEndpoint(name))
                        THEN [called EXCEPT
                                !.frame[slot] = [f EXCEPT !.pc = "awaiting", !.sent = 1]]
                        ELSE Complete(called, slot,
                               [f EXCEPT !.pc = "raised", !.error = RateLimitError,
                                         !.cause = "guard"])
       /\ UNCHANGED <<contact_cache, reqlog, fe, normVars, appVars, calVars>>

\* The search request settles with a candidate list: the first exact match
\* is cached and returned; without one the call returns null.  fc.filled
\* keeps, for a cached name, what the lookup that wrote the entry returned.
FindContactResultFrom(responses) ==
  \E slot \in ContactSlots, response \in responses :
    LET f == [fc.frame[slot] EXCEPT !.response = <<response>>]
        contacts == RequestSettle(response).body.data
        found == FindContact(contacts, f.name)
        contact_id == IF Truthy(contacts[found].id)
                      THEN JsString(contacts[found].id) ELSE ""
    IN /\ fc.frame[slot].pc = "awaiting"
       /\ IF found # 0
          THEN /\ contact_cache' = CacheSet(contact_cache, f.name, contact_id)
               /\ fc' = Complete(
                          [fc EXCEPT !.filled =
                             [n \in DOMAIN @ \cup {f.name} |->
                                IF n = f.name THEN JString(contact_id) ELSE @[n]]],
                          slot,
                          [f EXCEPT !.pc = "returned", !.result = JString(contact_id)])
          ELSE /\ fc' = Complete(fc, slot,
                          [f EXCEPT !.pc = "returned", !.result = JNull])
               /\ UNCHANGED contact_cache
       /\ UNCHANGED <<last_endpoint, consecutive_call_count, reqlog, fe,
                      normVars, appVars, calVars>>

FindContactResult == FindContactResultFrom(ContactResponses)

\* The search request settles with an error: the catch block returns null
\* for a message that includes 'does not exist' and rethrows every other
\* error.
FindContactError ==
  \E slot \in ContactSlots, response \in HttpErrorResponses \cup TransportFailures :
    LET f == [fc.frame[slot] EXCEPT
                !.response = <<response>>,
                !.cause = IF response.kind = "http" THEN response.status
                          ELSE "transport"]
        error == RequestSettle(response).error
    IN /\ fc.frame[slot].pc = "awaiting"
       /\ fc' = IF Includes(error.msg, "does not exist")
                THEN Complete(fc, slot, [f EXCEPT !.pc = "returned", !.result = JNull])
                ELSE Complete(fc, slot, [f EXCEPT !.pc = "raised", !.error = error])
       /\ UNCHANGED <<clientVars, reqlog, fe, normVars, appVars, calVars>>

\* The caller takes the outcome of a findContactByName call
ReturnFindContact ==
  \E slot \in ContactSlots :
    /\ Finished(fc.frame[slot])
    /\ fc' = [fc EXCEPT !.frame[slot] = IdleContact]
    /\ UNCHANGED <<clientVars, reqlog, fe, normVars, appVars, calVars>>

InitContact == InitClient /\ InitAuxIdle /\ InitCalIdle /\ InitNormIdle /\ InitAppIdle

NextContact ==
  \/ CallFindContactByName
  \/ FindContactResult
  \/ FindContactError
  \/ ReturnFindContact

SpecContact == InitContact /\ [][NextContact]_vars

\* C5 as stated: the first call with a name issues exactly one network
\* request, and a call with the same name made after an earlier one has
\* completed issues none.
C5_SecondCallIssuesNoRequest ==
  \A slot \in ContactSlots :
    LET f == fc.frame[slot]
    IN Finished(f) =>
         /\ f.first => f.sent = 1
         /\ f.after_completed => f.sent = 0

\* C5 as amended: the first call with a name issues exactly one network
\* request, and a call with the same name made after a call that returned
\* the id of an exact match has completed issues none.
C5_CallAfterMatchIssuesNoRequest ==
  \A slot \in ContactSlots :
    LET f == fc.frame[slot]
    IN Finished(f) =>
         /\ f.first => f.sent = 1
         /\ f.after_resolved => f.sent = 0 /\ f.hit

C5_Witness ==
  \E slot \in ContactSlots :
    LET f == fc.frame[slot]
    IN /\ Finished(f)
       /\ f.after_resolved
       /\ f.sent = 0
       /\ f.result = JString("contact-123")
       /\ fc.calls = 2

\* C6: on a cache miss the call returns the id of the first candidate whose
\* name equals the requested name; it returns null, without raising, when
\* the upstream answers 404 or no candidate matches exactly; every other
\* failure (401, 403, 429, 500, transport error, rejection by the guard) is
\* raised to the caller.
C6_MissOutcome ==
  \A slot \in ContactSlots :
    LET f == fc.frame[slot]
        response == f.response[1]
        exact == {i \in DOMAIN response.data : response.data[i].name = f.name}
    IN (Finished(f) /\ ~f.hit) =>
         IF f.sent = 0
         THEN f.pc = "raised" /\ f.error = RateLimitError
         ELSE IF response.kind = "ok"
         THEN /\ f.pc = "returned"
              /\ IF exact = {} THEN f.result = JNull
                 ELSE \E i \in exact :
                        /\ \A j \in exact : i <= j
                        /\ f.result = response.data[i].id
         ELSE IF response.kind = "http" /\ response.status = "404"
         THEN f.pc = "returned" /\ f.result = JNull
         ELSE f.pc = "raised" /\ RaisedFor(f.cause, f.error)

\* Two exact matches behind a candidate that merely contains the name: the
\* first exact match is returned
C6_Witness ==
  \E slot \in ContactSlots :
    LET f == fc.frame[slot]
    IN /\ f.pc = "returned"
       /\ ~f.hit
       /\ f.name = "Impro Neuf"
       /\ f.response[1].kind = "ok"
       /\ Len(f.response[1].data) = 2
       /\ f.response[1].data[1].name = "Impro Neuf Festival"
       /\ f.response[1].data[2].name = "Impro Neuf"
       /\ f.result = f.response[1].data[2].id

(***************************************************************************)
(* filter_events_by_booker                                                 *)
(***************************************************************************)
relevant_bookers == {"Impro Neuf", "Oslo Impro Festival"}

\* The owner name filter_events_by_booker reads off an event ("" for none)
OwnerName(event) ==
  IF Truthy(event.owner)
  THEN IF event.owner.t = "object" THEN event.owner.v
       ELSE IF event.owner.t = "string" THEN event.owner.v
       ELSE ""
  ELSE ""

\* all_names of an event: its contacts' names, then its owner name
AllNames(event, contacts_map) ==
  LET event_contacts == IF event.id \in DOMAIN contacts_map
                        THEN contacts_map[event.id] ELSE <<>>
      contact_names == {event_contacts[i].name : i \in DOMAIN event_contacts}
  IN IF OwnerName(event) # "" THEN contact_names \cup {OwnerName(event)}
     ELSE contact_names

filter_events_by_booker_contacts_only(evs, booker, contacts_map) ==
  IF booker = "" THEN <<>>
  ELSE SelectSeq(evs,
         LAMBDA event :
           LET names == AllNames([event EXCEPT !.owner = JUndefined], contacts_map)
           IN IF booker = "Other" THEN names \cap relevant_bookers = {}
              ELSE booker \in names)

\* Mutant: 'Other' keeps the events without any name
filter_events_by_booker_other_unnamed(evs, booker, contacts_map) ==
  IF booker = "" THEN <<>>
  ELSE SelectSeq(evs,
         LAMBDA event :
           IF booker = "Other"
           THEN AllNames(event, contacts_map) = {}
           ELSE booker \in AllNames(event, contacts_map))

\* filter_events_by_booker: nothing for an empty selection; otherwise the
\* events whose all_names hold the booker, or, for 'Other', none of the
\* relevant bookers.
filter_events_by_booker(evs, booker, contacts_map) ==
  IF booker = "" THEN <<>>
  ELSE SelectSeq(evs,
         LAMBDA event :
           IF booker = "Other"
           THEN AllNames(event, contacts_map) \cap relevant_bookers = {}
           ELSE booker \in AllNames(event, contacts_map))

\* The events of the application
AppEvent(id, owner) ==
  [id |-> id, name |-> "Event", start |-> ValidDate(10), end |-> ValidDate(12),
   status |-> "confirmed", owner |-> owner]

Owners ==
  {JUndefined, JString("Impro Neuf"), JNamed("Impro Neuf"),
   JNamed("Oslo Impro Festival"), JString("Random Co"), JObject}

AppEventIds == {"event-1", "event-2"}
AppEvents == {AppEvent(id, o) : id \in AppEventIds, o \in Owners}

RECURSIVE SeqsUpTo(_, _)
SeqsUpTo(S, n) ==
  IF n = 0 THEN {<<>>}
  ELSE SeqsUpTo(S, n - 1)
       \cup {Append(q, x) : q \in {r \in SeqsUpTo(S, n - 1) : Len(r) = n - 1}, x \in S}

EventLists == SeqsUpTo(AppEvents, MaxFilterEvents)

ContactLists ==
  {<<>>, <<Contact("contact-1", "Impro Neuf")>>,
   <<Contact("contact-2", "Oslo Impro Festival")>>,
   <<Contact("contact-3", "Random Co"), Contact("contact-1", "Impro Neuf")>>}

ContactsMaps ==
  UNION {[ids -> ContactLists] : ids \in SUBSET AppEventIds}

Bookers == {"", "Impro Neuf", "Oslo Impro Festival", "Other", "Random Co"}

InitFilter ==
  /\ InitClient /\ InitAuxIdle /\ InitCalIdle /\ InitNormIdle
  /\ events \in EventLists
  /\ selected_booker \in Bookers
  /\ event_contacts_map \in ContactsMaps
  /\ filter_result = <<>>

\* A call filter_events_by_booker(events, selected_booker, event_contacts_map)
ApplyFilter ==
  /\ filter_result = <<>>
  /\ filter_result' =
       <<filter_events_by_booker(events, selected_booker, event_contacts_map)>>
  /\ UNCHANGED <<clientVars, reqlog, fe, fc, normVars, calVars, events, selected_booker,
                 event_contacts_map>>

NextFilter == ApplyFilter
SpecFilter == InitFilter /\ [][NextFilter]_vars

\* The candidate name set of an event: the names of the contacts mapped to
\* its id, plus its owner's name when it has one
CandidateNames(event, contacts_map) ==
  (IF event.id \in DOMAIN contacts_map
   THEN {c.name : c \in RangeOf(contacts_map[event.id])} ELSE {})
  \cup (IF event.owner.t \in {"string", "object"} /\ event.owner.v # ""
        THEN {event.owner.v} ELSE {})

Selected(event, booker, contacts_map) ==
  IF booker = "" THEN FALSE
  ELSE IF booker = "Other"
  THEN /\ "Impro Neuf" \notin CandidateNames(event, contacts_map)
       /\ "Oslo Impro Festival" \notin CandidateNames(event, contacts_map)
  ELSE booker \in CandidateNames(event, contacts_map)

\* result holds exactly the entries of evs at the positions in kept, in order
IsSubsequenceAt(result, evs, kept) ==
  /\ Len(result) = Cardinality(kept)
  /\ \A k \in DOMAIN result :
       \E i \in kept :
         /\ Cardinality({j \in kept : j <= i}) = k
         /\ result[k] = evs[i]

\* C10: filter_events_by_booker returns, in input order and unaltered, exactly
\* the events whose candidate name set contains the selected booker; with
\* 'Other', exactly those whose candidate set holds neither 'Impro Neuf' nor
\* 'Oslo Impro Festival'; with an empty selection, nothing.
C10_FilterByBooker ==
  filter_result # <<>> =>
    IsSubsequenceAt(filter_result[1], events,
      {i \in DOMAIN events : Selected(events[i], selected_booker, event_contacts_map)})

\* 'Other' over an event owned by 'Impro Neuf' and one owned by 'Random Co'
C10_Witness ==
  /\ filter_result # <<>>
  /\ selected_booker = "Other"
  /\ Len(events) = 2
  /\ events[1].owner = JNamed("Impro Neuf")
  /\ events[2].owner = JString("Random Co")
  /\ event_contacts_map = NoContactsMap
  /\ filter_result[1] = <<events[2]>>

(***************************************************************************)
(* The application's filtered_events                                       *)
(***************************************************************************)
\* The computed property filtered_events of App.vue
filtered_events ==
  IF selected_booker = "" THEN <<>>
  ELSE filter_events_by_booker(events, selected_booker, event_contacts_map)

\* fetch_data succeeds: events holds the fetched list
fetch_data ==
  /\ \E fetched_events \in EventLists : events' = fetched_events
  /\ UNCHANGED <<clientVars, reqlog, fe, fc, normVars, calVars, selected_booker,
                 event_contacts_map, filter_result>>

\* fetch_data fails: events is emptied
fetch_data_failed ==
  /\ events' = <<>>
  /\ UNCHANGED <<clientVars, reqlog, fe, fc, normVars, calVars, selected_booker,
                 event_contacts_map, filter_result>>

\* The booker filter emits update:selected_booker
select_booker ==
  /\ \E booker \in {"Impro Neuf", "Oslo Impro Festival", "Other"} :
       selected_booker' = booker
  /\ UNCHANGED <<clientVars, reqlog, fe, fc, normVars, calVars, events,
                 event_contacts_map, filter_result>>

InitApp == InitClient /\ InitAuxIdle /\ InitCalIdle /\ InitNormIdle /\ InitAppIdle
NextApp == fetch_data \/ fetch_data_failed \/ select_booker
SpecApp == InitApp /\ [][NextApp]_vars

\* C9: whenever the event-contacts map is empty and events are present,
\* the filtered event list for a non-empty selected booker is the full
\* event list.
C9_EmptyMapBypassesFilter ==
  (DOMAIN event_contacts_map = {} /\ events # <<>> /\ selected_booker # "") =>
    filtered_events = events

(***************************************************************************)
(* Local time of the calendar (date-fns)                                   *)
(*                                                                         *)
(* A day is counted from Monday 2020-11-30 (day 0); an instant is counted  *)
(* in thirds of a local day: 3 * d is 00:00:00.000 of day d, 3 * d + 1 its *)
(* midday and 3 * d + 2 its 23:59:59.999.                                  *)
(***************************************************************************)
DayOf(time) == time \div 3
StartOfDay(d) == 3 * d
EndOfDay(d) == 3 * d + 2

\* The days of the months December 2020 .. August 2021
MonthLengths == <<31, 31, 28, 31, 30, 31, 30, 31, 31>>

RECURSIVE MonthFirstFrom(_)
MonthFirstFrom(m) ==
  IF m = 1 THEN 1 ELSE MonthFirstFrom(m - 1) + MonthLengths[m - 1]

\* The first day of each month, and the month of each day
MonthFirstDays == [m \in DOMAIN MonthLengths |-> MonthFirstFrom(m)]

MonthFirst(m) == MonthFirstDays[m]

MonthLast(m) == MonthFirst(m) + MonthLengths[m] - 1

MonthOfDays ==
  [d \in 1..MonthLast(Len(MonthLengths)) |->
     CHOOSE m \in DOMAIN MonthLengths : MonthFirst(m) <= d /\ d <= MonthLast(m)]

MonthOf(d) == MonthOfDays[d]

\* Date.prototype.getDate: the day of the month
getDate(date) == DayOf(date.time) - MonthFirst(MonthOf(DayOf(date.time))) + 1

\* getDay: 0 is Sunday, 1 is Monday
getDay(date) == (DayOf(date.time) + 1) % 7

startOfMonth(date) ==
  ValidDate(StartOfDay(MonthFirst(MonthOf(DayOf(date.time)))))

endOfMonth(date) ==
  ValidDate(EndOfDay(MonthLast(MonthOf(DayOf(date.time)))))

\* startOfWeek(date, { weekStartsOn: 0 })
startOfWeek_sunday(date) ==
  ValidDate(StartOfDay(DayOf(date.time) - getDay(date)))

\* startOfWeek(date, { weekStartsOn: 1 })
startOfWeek(date) ==
  LET day == getDay(date)
      diff == (IF day < 1 THEN 7 ELSE 0) + day - 1
  IN ValidDate(StartOfDay(DayOf(date.time) - diff))

\* endOfWeek(date, { weekStartsOn: 1 })
endOfWeek(date) ==
  LET day == getDay(date)
      diff == (IF day < 1 THEN 0 - 7 ELSE 0) + 6 - (day - 1)
  IN ValidDate(EndOfDay(DayOf(date.time) + diff))

eachDayOfInterval(start, end) ==
  [i \in 1..(DayOf(end.time) - DayOf(start.time) + 1) |->
     ValidDate(StartOfDay(DayOf(start.time) + i - 1))]

isSameDay_instant(date_left, date_right) == date_left.time = date_right.time

isSameDay(date_left, date_right) == DayOf(date_left.time) = DayOf(date_right.time)

isSameMonth(date_left, date_right) ==
  MonthOf(DayOf(date_left.time)) = MonthOf(DayOf(date_right.time))

isToday(date) == isSameDay(date, NewDate)

\* addMonths keeps the time of day and clamps the day of the month to the
\* length of the target month
addMonths(date, amount) ==
  LET day == DayOf(date.time)
      target == MonthOf(day) + amount
      day_of_month == day - MonthFirst(MonthOf(day))
      clamped == IF day_of_month < MonthLengths[target]
                 THEN day_of_month ELSE MonthLengths[target] - 1
  IN ValidDate(StartOfDay(MonthFirst(target) + clamped) + (date.time % 3))

subMonths(date, amount) == addMonths(date, 0 - amount)

\* a >= b and a <= b on Date objects: false when either is an Invalid Date
DateGe(a, b) == a.valid /\ b.valid /\ a.time >= b.time
DateLe(a, b) == a.valid /\ b.valid /\ a.time <= b.time

(***************************************************************************)
(* Calendar.vue: filtered_by_month and calendar_days                       *)
(***************************************************************************)
CalEvent(id, start, end) == [id |-> id, start |-> start, end |-> end]

\* The predicate of filtered_by_month's filter
OverlapsMonth(event, month_start, month_end) ==
  LET event_start == event.start
      event_end == event.end
      starts_in_month == DateGe(event_start, month_start) /\ DateLe(event_start, month_end)
      ends_in_month == DateGe(event_end, month_start) /\ DateLe(event_end, month_end)
      spans_month == DateLe(event_start, month_start) /\ DateGe(event_end, month_end)
  IN IF isNaN(event_start) \/ isNaN(event_end)
     THEN FALSE
     ELSE starts_in_month \/ ends_in_month \/ spans_month

filtered_by_month(date, displayed_events) ==
  IF Len(displayed_events) = 0
  THEN <<>>
  ELSE LET month_start == startOfMonth(date)
           month_end == endOfMonth(date)
       IN SelectSeq(displayed_events,
                    LAMBDA event : OverlapsMonth(event, month_start, month_end))

\* The predicate of calendar_days' filter for the cell of date
MatchesDay(event, date) ==
  LET event_start == event.start
      event_end == event.end
      starts_on_day == isSameDay(event_start, date)
      ends_on_day == isSameDay(event_end, date)
      spans_day == DateLe(event_start, date) /\ DateGe(event_end, date)
  IN IF isNaN(event_start) \/ isNaN(event_end)
     THEN FALSE
     ELSE starts_on_day \/ ends_on_day \/ spans_day

CalendarDay(date, reference, day_events) ==
  [date |-> date,
   day_number |-> getDate(date),
   is_today |-> isToday(date),
   is_other_month |-> ~isSameMonth(date, reference),
   events |-> day_events]

\* calendar_days with cells that hold only the events spanning their midnight
calendar_days_spans_only(date, displayed_events) ==
  LET days_in_range == eachDayOfInterval(startOfWeek(startOfMonth(date)),
                                         endOfWeek(endOfMonth(date)))
  IN [i \in DOMAIN days_in_range |->
        CalendarDay(days_in_range[i], date,
          SelectSeq(filtered_by_month(date, displayed_events),
                    LAMBDA event : DateLe(event.start, days_in_range[i])
                                   /\ DateGe(event.end, days_in_range[i])))]

calendar_days(date, displayed_events) ==
  LET month_start == startOfMonth(date)
      month_end == endOfMonth(date)
      calendar_start == startOfWeek(month_start)
      calendar_end == endOfWeek(month_end)
      days_in_range == eachDayOfInterval(calendar_start, calendar_end)
      month_events == filtered_by_month(date, displayed_events)
  IN [i \in DOMAIN days_in_range |->
        CalendarDay(days_in_range[i], date,
          SelectSeq(month_events,
                    LAMBDA event : MatchesDay(event, days_in_range[i])))]

(***************************************************************************)
(* filterEventsForMonth of the service                                     *)
(***************************************************************************)
\* new Date(date.getFullYear(), date.getMonth(), 1)
FirstInstantOfMonth(date) ==
  ValidDate(StartOfDay(MonthFirst(MonthOf(DayOf(date.time)))))

\* new Date(date.getFullYear(), date.getMonth() + 1, 0, 23, 59, 59, 999):
\* day 0 of the next month is the last day of this one
LastInstantOfMonth(date) ==
  ValidDate(EndOfDay(MonthFirst(MonthOf(DayOf(date.time)) + 1) - 1))

\* filterEventsForMonth with a month that ends before its last instant
filterEventsForMonth_open(month_events, date) ==
  LET month_start == FirstInstantOfMonth(date)
      month_end == LastInstantOfMonth(date)
  IN SelectSeq(month_events, LAMBDA event :
       \/ DateGe(event.start, month_start) /\ event.start.valid /\ event.start.time < month_end.time
       \/ DateGe(event.end, month_start) /\ event.end.valid /\ event.end.time < month_end.time
       \/ DateLe(event.start, month_start) /\ DateGe(event.end, month_end))

filterEventsForMonth(month_events, date) ==
  LET month_start == FirstInstantOfMonth(date)
      month_end == LastInstantOfMonth(date)
  IN SelectSeq(month_events, LAMBDA event :
       LET event_start == event.start
           event_end == event.end
       IN \/ DateGe(event_start, month_start) /\ DateLe(event_start, month_end)
          \/ DateGe(event_end, month_start) /\ DateLe(event_end, month_end)
          \/ DateLe(event_start, month_start) /\ DateGe(event_end, month_end))

(***************************************************************************)
(* The Calendar component                                                  *)
(***************************************************************************)
\* The intervals of the events, all in 2021
EventIntervals ==
  {\* 1 February midday .. 3 February midday: three days
   <<ValidDate(StartOfDay(63) + 1), ValidDate(StartOfDay(65) + 1)>>,
   \* 30 January midday .. the first instant of February: three days
   <<ValidDate(StartOfDay(61) + 1), ValidDate(StartOfDay(63))>>,
   \* 2 April midday, start and end
   <<ValidDate(StartOfDay(123) + 1), ValidDate(StartOfDay(123) + 1)>>,
   \* the first instant of March .. 2 April midday
   <<ValidDate(StartOfDay(91)), ValidDate(StartOfDay(123) + 1)>>,
   \* the last instant of January, start and end
   <<ValidDate(EndOfDay(62)), ValidDate(EndOfDay(62))>>,
   \* the first .. the last instant of February
   <<ValidDate(StartOfDay(63)), ValidDate(EndOfDay(90))>>,
   \* 30 January midday .. the first instant of March
   <<ValidDate(StartOfDay(61) + 1), ValidDate(StartOfDay(91))>>,
   \* an end before the start
   <<ValidDate(StartOfDay(65) + 1), ValidDate(StartOfDay(63) + 1)>>,
   \* an Invalid Date as start, as end
   <<InvalidDate, ValidDate(StartOfDay(63) + 1)>>,
   <<ValidDate(StartOfDay(63) + 1), InvalidDate>>}

CalEventIds == <<"event-1", "event-2", "event-3", "event-4">>

CalEventLists ==
  UNION {{[i \in 1..n |-> CalEvent(CalEventIds[i], intervals[i][1], intervals[i][2])] :
            intervals \in [1..n -> EventIntervals]} :
         n \in 0..MaxCalEvents}

\* The reference dates a Calendar is given: 31 January midday, the last
\* instant of 31 March, 15 May midday
ViewDates ==
  {ValidDate(t) : t \in {StartOfDay(62) + 1, EndOfDay(121), StartOfDay(166) + 1}}

\* The months the Calendar is moved through: January .. May 2021
ViewMonths == 2..6

MonthOfDate(date) == MonthOf(DayOf(date.time))

\* The Calendar is mounted with its props
InitCal ==
  /\ InitClient /\ InitAuxIdle /\ InitNormIdle /\ InitAppIdle
  /\ current_date \in ViewDates
  /\ props_filtered_events \in CalEventLists
  /\ rendered_days = calendar_days(current_date, props_filtered_events)
  /\ month_call = <<>>
  /\ month_result = <<>>
  /\ call = IdleCall
  /\ page_obs = NotObserving

go_to_previous_month ==
  /\ MonthOfDate(current_date) - 1 \in ViewMonths
  /\ current_date' = subMonths(current_date, 1)
  /\ rendered_days' = calendar_days(current_date', props_filtered_events)
  /\ UNCHANGED <<clientVars, reqlog, fe, fc, normVars, appVars,
                 props_filtered_events, month_call, month_result, call, page_obs, auxVars>>

go_to_next_month ==
  /\ MonthOfDate(current_date) + 1 \in ViewMonths
  /\ current_date' = addMonths(current_date, 1)
  /\ rendered_days' = calendar_days(current_date', props_filtered_events)
  /\ UNCHANGED <<clientVars, reqlog, fe, fc, normVars, appVars,
                 props_filtered_events, month_call, month_result, call, page_obs, auxVars>>

go_to_today ==
  /\ current_date' = NewDate
  /\ rendered_days' = calendar_days(current_date', props_filtered_events)
  /\ UNCHANGED <<clientVars, reqlog, fe, fc, normVars, appVars,
                 props_filtered_events, month_call, month_result, call, page_obs, auxVars>>

\* watch(() => props.current_date): the parent passes another date
WatchCurrentDate ==
  \E new_date \in ViewDates :
    /\ new_date # current_date
    /\ current_date' = new_date
    /\ rendered_days' = calendar_days(current_date', props_filtered_events)
    /\ UNCHANGED <<clientVars, reqlog, fe, fc, normVars, appVars,
                   props_filtered_events, month_call, month_result, call, page_obs, auxVars>>

\* The parent's events are emptied (fetch_data failed): the prop becomes []
ClearFilteredEvents ==
  /\ props_filtered_events # <<>>
  /\ props_filtered_events' = <<>>
  /\ rendered_days' = calendar_days(current_date, props_filtered_events')
  /\ UNCHANGED <<clientVars, reqlog, fe, fc, normVars, appVars,
                 current_date, month_call, month_result, call, page_obs, auxVars>>

NextCal ==
  \/ go_to_previous_month
  \/ go_to_next_month
  \/ go_to_today
  \/ WatchCurrentDate
  \/ ClearFilteredEvents

SpecCal == InitCal /\ [][NextCal]_vars

(***************************************************************************)
(* The month filter of the service                                         *)
(***************************************************************************)
InitMonth ==
  /\ InitClient /\ InitAuxIdle /\ InitNormIdle /\ InitAppIdle
  /\ current_date = InvalidDate
  /\ props_filtered_events = <<>>
  /\ rendered_days = <<>>
  /\ month_call \in {<<[events |-> list, date |-> date]>> :
                        list \in CalEventLists, date \in ViewDates}
  /\ month_result = <<>>
  /\ call = IdleCall
  /\ page_obs = NotObserving

CallFilterEventsForMonth ==
  /\ month_call # <<>>
  /\ month_result = <<>>
  /\ month_result' = <<filterEventsForMonth(month_call[1].events, month_call[1].date)>>
  /\ UNCHANGED <<clientVars, reqlog, fe, fc, normVars, appVars, current_date,
                 props_filtered_events, rendered_days, month_call, call, page_obs, auxVars>>

NextMonth == CallFilterEventsForMonth

SpecMonth == InitMonth /\ [][NextMonth]_vars

(***************************************************************************)
(* C11, C12, C13: the calendar grid                                        *)
(***************************************************************************)
\* The day of the i-th rendered cell
CellDay(i) == DayOf(rendered_days[i].date.time)

\* The days of the month of the reference date
TargetMonthDays ==
  MonthFirst(MonthOfDate(current_date))..MonthLast(MonthOfDate(current_date))

HasValidDates(event) == event.start.valid /\ event.end.valid

\* The event's interval touches day d: it starts on d, ends on d or spans
\* across d
Touches(event, d) ==
  /\ HasValidDates(event)
  /\ \/ DayOf(event.start.time) = d
     \/ DayOf(event.end.time) = d
     \/ DayOf(event.start.time) < d /\ d < DayOf(event.end.time)

\* The event's interval meets the month of the reference date
MeetsTargetMonth(event) ==
  LET first == StartOfDay(MonthFirst(MonthOfDate(current_date)))
      last == EndOfDay(MonthLast(MonthOfDate(current_date)))
  IN /\ HasValidDates(event)
     /\ \/ first <= event.start.time /\ event.start.time <= last
        \/ first <= event.end.time /\ event.end.time <= last
        \/ event.start.time <= first /\ last <= event.end.time

\* C11 as stated: every cell of the rendered grid holds exactly the events
\* given to the Calendar (its prop filtered_events) whose interval touches
\* the cell's day, in the order given.
C11_CellsHoldTouchingEvents ==
  \A i \in DOMAIN rendered_days :
    rendered_days[i].events =
      SelectSeq(props_filtered_events, LAMBDA event : Touches(event, CellDay(i)))

\* C11: every cell of the rendered grid, the cells of the leading and
\* trailing weeks included, holds exactly the events given to the Calendar
\* that meet the target month and whose interval touches the cell's day, in
\* the order given.
C11_CellsHoldTouchingMonthEvents ==
  \A i \in DOMAIN rendered_days :
    rendered_days[i].events =
      SelectSeq(props_filtered_events,
                LAMBDA event : MeetsTargetMonth(event) /\ Touches(event, CellDay(i)))

\* A cell of another month holds an event, while an event given to the
\* Calendar that does not meet the target month touches a rendered day
C11_Witness ==
  /\ \E i \in DOMAIN rendered_days :
       rendered_days[i].is_other_month /\ rendered_days[i].events # <<>>
  /\ \E i \in DOMAIN rendered_days : \E j \in DOMAIN props_filtered_events :
       /\ Touches(props_filtered_events[j], CellDay(i))
       /\ ~MeetsTargetMonth(props_filtered_events[j])

\* The cells that hold the event itself
CellsHolding(event) ==
  {i \in DOMAIN rendered_days :
     \E j \in DOMAIN rendered_days[i].events : rendered_days[i].events[j] = event}

\* The days the event spans
SpannedDays(event) == DayOf(event.start.time)..DayOf(event.end.time)

Ordered(event) == HasValidDates(event) /\ event.start.time <= event.end.time

\* C12 as stated: an event given to the Calendar that meets the target
\* month and spans N days is held, itself, by exactly N cells of the grid.
C12_SpanningEventInNCells ==
  \A j \in DOMAIN props_filtered_events :
    LET event == props_filtered_events[j]
    IN (Ordered(event) /\ MeetsTargetMonth(event)) =>
         Cardinality(CellsHolding(event)) = Cardinality(SpannedDays(event))

\* C12: an event given to the Calendar that meets the target month is held,
\* itself, by exactly the cells of the days it spans that the grid has, one
\* cell per day; these are N cells when the grid has all N days it spans.
C12_SpanningEventInCellsOfItsDays ==
  \A j \in DOMAIN props_filtered_events :
    LET event == props_filtered_events[j]
        grid_days == {CellDay(i) : i \in DOMAIN rendered_days}
    IN (Ordered(event) /\ MeetsTargetMonth(event)) =>
         /\ {CellDay(i) : i \in CellsHolding(event)} = SpannedDays(event) \cap grid_days
         /\ Cardinality(CellsHolding(event)) = Cardinality(SpannedDays(event) \cap grid_days)
         /\ SpannedDays(event) \subseteq grid_days =>
              Cardinality(CellsHolding(event)) = Cardinality(SpannedDays(event))

\* An event spanning three days of the grid is held by three cells, next to
\* a second event
C12_Witness ==
  \E j \in DOMAIN props_filtered_events :
    LET event == props_filtered_events[j]
    IN /\ Ordered(event) /\ MeetsTargetMonth(event)
       /\ Cardinality(SpannedDays(event)) = 3
       /\ Cardinality(CellsHolding(event)) = 3
       /\ Len(props_filtered_events) > 1

\* C13: the rendered grid is a run of consecutive days from a Monday to a
\* Sunday that has every day of the target month, has 28, 35 or 42 cells,
\* and marks a cell is_other_month exactly when its day is outside the
\* target month.
C13_GridIsFullWeeksOfMonth ==
  current_date.valid =>
    LET n == Len(rendered_days)
    IN /\ n \in {28, 35, 42}
       /\ \A i \in 1..(n - 1) : CellDay(i + 1) = CellDay(i) + 1
       /\ CellDay(1) % 7 = 0
       /\ CellDay(n) % 7 = 6
       /\ TargetMonthDays \subseteq {CellDay(i) : i \in 1..n}
       /\ \A i \in 1..n :
            rendered_days[i].is_other_month <=> CellDay(i) \notin TargetMonthDays

\* A grid of six weeks with cells of both neighbouring months
C13_Witness ==
  /\ Len(rendered_days) = 42
  /\ rendered_days[1].is_other_month
  /\ rendered_days[42].is_other_month

(***************************************************************************)
(* C14: the month filter                                                   *)
(***************************************************************************)
\* The event is kept for the month of date: its start or its end lies in
\* [monthStart, monthEnd], or it starts at or before monthStart and ends at
\* or after monthEnd
KeptForMonth(event, date) ==
  LET monthStart == StartOfDay(MonthFirst(MonthOfDate(date)))
      monthEnd == EndOfDay(MonthLast(MonthOfDate(date)))
  IN \/ monthStart <= event.start.time /\ event.start.time <= monthEnd
     \/ monthStart <= event.end.time /\ event.end.time <= monthEnd
     \/ event.start.time <= monthStart /\ monthEnd <= event.end.time

\* The event lies entirely before or entirely after the month of date
OutsideMonth(event, date) ==
  LET monthStart == StartOfDay(MonthFirst(MonthOfDate(date)))
      monthEnd == EndOfDay(MonthLast(MonthOfDate(date)))
  IN \/ event.start.time < monthStart /\ event.end.time < monthStart
     \/ event.start.time > monthEnd /\ event.end.time > monthEnd

ValidEvents(list) == SelectSeq(list, HasValidDates)

\* C14: of the events with valid dates, filterEventsForMonth keeps exactly
\* those whose start or end lies in [monthStart, monthEnd] or that start at
\* or before monthStart and end at or after monthEnd; it drops the events
\* entirely before or after the month; and the Calendar's filtered_by_month
\* selects the same events.
C14_MonthFilterKeepsOverlapping ==
  month_result # <<>> =>
    LET list == ValidEvents(month_call[1].events)
        date == month_call[1].date
        kept == ValidEvents(month_result[1])
    IN /\ kept = SelectSeq(list, LAMBDA event : KeptForMonth(event, date))
       /\ \A j \in DOMAIN kept : ~OutsideMonth(kept[j], date)
       /\ filtered_by_month(date, list) = kept

\* The filter has kept an event that starts at the last instant of the
\* month and dropped an event with valid dates
C14_Witness ==
  /\ month_result # <<>>
  /\ \E j \in DOMAIN month_result[1] :
       month_result[1][j].start.time = EndOfDay(MonthLast(MonthOfDate(month_call[1].date)))
  /\ Len(ValidEvents(month_result[1])) < Len(ValidEvents(month_call[1].events))

(***************************************************************************)
(* The single-request operations: fetchEventDetails, fetchEventResources,  *)
(* fetchEventContacts                                                      *)
(***************************************************************************)
\* normalizeResource and normalizeContact: the keys of the raw record are
\* spread over the computed id and name
RawItem(id, name) == [id |-> id, name |-> name]

normalizeResource(raw_resource) ==
  [id |-> IF raw_resource.id.t # "undefined" THEN raw_resource.id
          ELSE JString(""),
   name |-> IF raw_resource.name.t # "undefined" THEN raw_resource.name
            ELSE JString("")]

normalizeContact(raw_contact) ==
  [id |-> IF raw_contact.id.t # "undefined" THEN raw_contact.id
          ELSE JString(""),
   name |-> IF raw_contact.name.t # "undefined" THEN raw_contact.name
            ELSE JString("")]

\* The bodies the upstream answers a list request with: { data: [...] },
\* or an object without data
ListBody(has_data, data) == [kind |-> "ok", has_data |-> has_data, data |-> data]

ListBodies ==
  {ListBody(FALSE, <<>>), ListBody(TRUE, <<>>),
   ListBody(TRUE, <<RawItem(JString("room-1"), JString("Room 1"))>>),
   ListBody(TRUE, <<RawItem(JString("room-1"), JString("Room 1")),
                    RawItem(JUndefined, JString("Room 2"))>>)}

\* response.data || []
DataOrEmpty(response) == IF response.has_data THEN response.data ELSE <<>>

\* The bodies the upstream answers /event/{id} with
EventBody(raw) == [kind |-> "ok", raw |-> raw]
EventBodies == {EventBody(RawA), EventBody(RawB)}

\* The cause of a failure, as the upstream or the transport produced it
CauseOf(response) ==
  IF response.kind = "http" THEN response.status
  ELSE IF response.kind = "transport" THEN "transport"
  ELSE "ok"

Returned(frame, value) == [frame EXCEPT !.pc = "returned", !.result = <<value>>]
Raised(frame, error) == [frame EXCEPT !.pc = "raised", !.error = error]

\* The history after one more request, which left the client or not
NextRun(run, shape, leaves) ==
  LET same == run.shape = shape
  IN [shape |-> shape,
      requests |-> IF same THEN run.requests + 1 ELSE 1,
      sent |-> (IF same THEN run.sent ELSE 0) + (IF leaves THEN 1 ELSE 0),
      rejected |-> (same /\ run.rejected) \/ ~leaves,
      failed |-> same /\ run.failed,
      last_rejected |-> IF leaves THEN run.last_rejected ELSE shape]

\* An operation of the client calls request(endpoint) first; fetch is
\* called only when checkRateLimit has not thrown
CallSingle(op, event_id, endpoint) ==
  /\ call.pc = "idle"
  /\ call.count < MaxOps
  /\ RequestStart(endpoint)
  /\ LET frame == [pc |-> "awaiting", count |-> call.count + 1, op |-> op,
                   event_id |-> event_id, cause |-> "", result |-> <<>>,
                   error |-> Err("", <<>>),
                   run |-> NextRun(call.run, extractEndpointPath(endpoint),
                                   RequestAdmitted(endpoint))]
     IN call' = IF RequestAdmitted(endpoint)
                THEN frame
                ELSE Raised([frame EXCEPT !.cause = "guard"], RateLimitError)
  /\ UNCHANGED <<contact_cache, reqlog, fe, fc, normVars, appVars, current_date,
                 props_filtered_events, rendered_days, month_call, month_result,
                 page_obs, auxVars>>

CallFetchEventDetails ==
  \E event_id \in EventIds :
    CallSingle("fetchEventDetails", event_id, EventDetailsEndpoint(event_id))

CallFetchEventResources ==
  \E event_id \in EventIds :
    CallSingle("fetchEventResources", event_id, EventResourcesEndpoint(event_id))

CallFetchEventContacts ==
  \E event_id \in EventIds :
    CallSingle("fetchEventContacts", event_id, EventContactsEndpoint(event_id))

SettleFrame == <<clientVars, reqlog, fe, fc, normVars, appVars, current_date,
                 props_filtered_events, rendered_days, month_call, month_result,
                 page_obs, auxVars>>

\* fetchEventDetails after its await: the event is normalized; an error of
\* request() is not caught
SettleFetchEventDetails ==
  \E response \in EventBodies \cup HttpErrorResponses \cup TransportFailures :
    /\ call.pc = "awaiting" /\ call.op = "fetchEventDetails"
    /\ LET settled == RequestSettle(response)
           frame == [call EXCEPT !.cause = CauseOf(response),
                                 !.run.failed = @ \/ CauseOf(response) # "ok"]
       IN call' = IF settled.throws
                  THEN Raised(frame, settled.error)
                  ELSE Returned(frame, normalizeEvent(settled.body.raw))
    /\ UNCHANGED SettleFrame

\* fetchEventResources after its await: the resources are normalized; an
\* error whose message includes 'does not exist' gives [], any other error
\* is thrown again
SettleFetchEventResources ==
  \E response \in ListBodies \cup HttpErrorResponses \cup TransportFailures :
    /\ call.pc = "awaiting" /\ call.op = "fetchEventResources"
    /\ LET settled == RequestSettle(response)
           frame == [call EXCEPT !.cause = CauseOf(response),
                                 !.run.failed = @ \/ CauseOf(response) # "ok"]
       IN call' = IF settled.throws
                  THEN IF Includes(settled.error.msg, "does not exist")
                       THEN Returned(frame, <<>>)
                       ELSE Raised(frame, settled.error)
                  ELSE Returned(frame, [i \in DOMAIN DataOrEmpty(settled.body) |->
                                          normalizeResource(DataOrEmpty(settled.body)[i])])
    /\ UNCHANGED SettleFrame

\* fetchEventContacts after its await: the contacts are normalized; an
\* error of request() is not caught
SettleFetchEventContacts ==
  \E response \in ListBodies \cup HttpErrorResponses \cup TransportFailures :
    /\ call.pc = "awaiting" /\ call.op = "fetchEventContacts"
    /\ LET settled == RequestSettle(response)
           frame == [call EXCEPT !.cause = CauseOf(response),
                                 !.run.failed = @ \/ CauseOf(response) # "ok"]
       IN call' = IF settled.throws
                  THEN Raised(frame, settled.error)
                  ELSE Returned(frame, [i \in DOMAIN DataOrEmpty(settled.body) |->
                                          normalizeContact(DataOrEmpty(settled.body)[i])])
    /\ UNCHANGED SettleFrame

\* The caller takes the outcome of the operation
ReturnSingle ==
  /\ call.pc \in {"returned", "raised"}
  /\ call' = [pc |-> "idle", count |-> call.count, run |-> call.run]
  /\ UNCHANGED SettleFrame

InitOps == InitClient /\ InitAuxIdle /\ InitCalIdle /\ InitNormIdle /\ InitAppIdle

NextOps ==
  \/ CallFetchEventDetails
  \/ CallFetchEventResources
  \/ CallFetchEventContacts
  \/ SettleFetchEventDetails
  \/ SettleFetchEventResources
  \/ SettleFetchEventContacts
  \/ ReturnSingle

SpecOps == InitOps /\ [][NextOps]_vars

(***************************************************************************)
(* C15, C16: errors of the single-request operations                       *)
(***************************************************************************)
\* C15: when the upstream answers 404, fetchEventResources and
\* fetchEventContacts return an empty list and fetchEventDetails raises the
\* not-found error.  (The contact lookup's null on 404 is C6_MissOutcome.)
C15_NotFoundSwallowedOrRaised ==
  (call.pc \in {"returned", "raised"} /\ call.cause = "404") =>
    IF call.op \in {"fetchEventResources", "fetchEventContacts"}
    THEN call.pc = "returned" /\ call.result = <<(<<>>)>>
    ELSE call.pc = "raised" /\ Includes(call.error.msg, "does not exist")

\* C16: a request whose fetch was rejected by the transport raises an
\* error whose message starts with 'Network error: '.
C16_TransportFailureHasPrefix ==
  (call.pc \in {"returned", "raised"} /\ call.cause = "transport") =>
    /\ call.pc = "raised"
    /\ Len(call.error.msg) > 0
    /\ call.error.msg[1] = "Network error: "

(***************************************************************************)
(* The client under all its operations                                     *)
(***************************************************************************)
\* The calls made on the client so far
ClientCalls == fc.calls + fe.calls + call.count

InitClientOps == InitClient /\ InitAuxIdle /\ InitCalIdle /\ InitNormIdle /\ InitAppIdle

\* No call of the other kinds of operation is in flight: the caller awaits
\* one kind of operation before it starts another (lookups overlap), and
\* the pages fetchEvents is served here have no events
LookupsIdle == \A slot \in ContactSlots : fc.frame[slot].pc = "idle"
FetchIdle == fe.pc = "idle"
SingleIdle == call.pc = "idle"

NextClient ==
  \/ /\ ClientCalls < MaxClientCalls /\ FetchIdle /\ SingleIdle
     /\ CallFindContactByName
  \/ FindContactResult
  \/ FindContactError
  \/ ReturnFindContact
  \/ /\ ClientCalls < MaxClientCalls /\ LookupsIdle /\ SingleIdle
     /\ CallFetchEvents
  \/ FetchEventsPage /\ fe'.served = <<>>
  \/ FetchEventsError
  \/ ReturnFetchEvents
  \/ /\ ClientCalls < MaxClientCalls /\ LookupsIdle /\ FetchIdle
     /\ \/ CallFetchEventDetails
        \/ CallFetchEventResources
        \/ CallFetchEventContacts
  \/ SettleFetchEventDetails
  \/ SettleFetchEventResources
  \/ SettleFetchEventContacts
  \/ ReturnSingle

SpecClient == InitClientOps /\ [][NextClient]_vars

(***************************************************************************)
(* C17: the frame of the contact cache                                     *)
(***************************************************************************)
\* The step is the completion of a lookup that found an exact match for
\* its name and wrote the id it found
WrittenByMatchingLookup ==
  \E slot \in ContactSlots :
    LET before == fc.frame[slot]
        after == fc'.frame[slot]
    IN /\ before.pc = "awaiting"
       /\ after.pc = "returned"
       /\ after.result.t = "string"
       /\ \E i \in DOMAIN after.response[1].data :
            after.response[1].data[i].name = after.name
       /\ DOMAIN contact_cache' = DOMAIN contact_cache \cup {after.name}
       /\ contact_cache'[after.name] = after.result.v
       /\ \A n \in DOMAIN contact_cache \ {after.name} :
            contact_cache'[n] = contact_cache[n]

AsRawEvent(event) ==
  [event.raw EXCEPT
     !.id = JString(event.id),
     !.name = JString(event.name),
     !.status = JString(event.status),
     !.start = JDate(DateString(event.start)),
     !.end = JDate(DateString(event.end))]

IdValues ==
  {JUndefined, JNull, JString(""), JString("event-4"), JNumber("0"), JNumber("123")}

NameValues == {JUndefined, JNull, JString(""), JString("Test Event 4")}

StatusValues ==
  {JUndefined, JNull, JString(""), JString("confirmed"), JNamed("confirmed"),
   JNamed(""), JObject, JNumber("1")}

RenormRawEvents ==
  [id : IdValues,
   name : NameValues,
   status : StatusValues,
   owner : {JUndefined},
   starttime : {JUndefined, JString("2024-01-18T10:00:00Z")},
   start : {JUndefined, JString("not a date")},
   defaultschedulestart : {JUndefined},
   endtime : {JUndefined},
   end : {JUndefined},
   defaultscheduleend : {JUndefined, JString("2024-01-20T12:00:00Z")}]

InitRenorm ==
  /\ InitClient /\ InitAuxIdle /\ InitCalIdle /\ InitAppIdle
  /\ raw_record \in RenormRawEvents
  /\ normalized = <<>>
  /\ now = 100

\* A call normalizeEvent(normalized) on the result of the first call
Renormalize ==
  /\ Len(normalized) = 1
  /\ normalized' = Append(normalized, normalizeEvent(AsRawEvent(normalized[1])))
  /\ UNCHANGED <<clientVars, reqlog, fe, fc, raw_record, now, appVars, calVars>>

NextRenorm == Normalize \/ Renormalize

SpecRenorm == InitRenorm /\ [][NextRenorm]_vars

\* C18: the second normalization yields the id, name and status of the
\* first.
C18_RenormalizeKeepsIdNameStatus ==
  Len(normalized) = 2 =>
    /\ normalized[2].id = normalized[1].id
    /\ normalized[2].name = normalized[1].name
    /\ normalized[2].status = normalized[1].status

\* A record with a {name} status and no id has been normalized twice
C18_Witness ==
  /\ Len(normalized) = 2
  /\ raw_record.status = JNamed("confirmed")
  /\ raw_record.id = JUndefined
  /\ normalized[2].status = "confirmed"


(***************************************************************************)
(* fetchEvents, page by page: the pagination block of each page is kept    *)
(* next to the call, which shows what the next request carries             *)
(***************************************************************************)

InitPages ==
  /\ InitClient /\ InitAuxIdle /\ InitViewIdle /\ InitNormIdle /\ InitAppIdle
  /\ page_obs = Observing

NextPages ==
  \/ CallFetchEvents /\ fe'.calls <= MaxPageCalls
  \/ FetchEventsPage /\ fe'.served = <<>>
  \/ FetchEventsError
  \/ ReturnFetchEvents

SpecPages == InitPages /\ [][NextPages]_vars

\* The pagination block of the last page of the running call
LastPagination == page_obs.pagination[1]

\* C19: when a page's response carries a pagination object
\* {book, page, hasMore: true}, the next request of fetchEvents carries
\* the book and the page of that object.
C19_NextRequestCarriesPaginationBookAndPage ==
  (/\ fe.pc = "awaiting"
   /\ page_obs.pagination # <<>>
   /\ LastPagination.present
   /\ LastPagination.next = <<>>
   /\ LastPagination.hasMore = <<TRUE>>
   /\ LastPagination.book.t = "number"
   /\ LastPagination.page.t = "number") =>
    fe.params = <<[book |-> LastPagination.book,
                   page |-> LastPagination.page.n]>>

\* A step in which a page of fetchEvents arrives
PageStep ==
  /\ fe.pc = "awaiting"
  /\ fe'.pc # "idle"
  /\ fe'.pages_fetched = fe.pages_fetched + 1

\* C20: after each page, fetchEvents decides continuation in this order:
\* with a next locator it continues, with the book and the page of the
\* locator, and with the page counter plus one when the locator does not
\* parse; otherwise, with a hasMore flag, it continues exactly when the
\* flag is true; with no pagination block, or a block with neither, it
\* issues no further request.  A continuing call issues its next request
\* while it is under its cap, and that request carries the book and the
\* page it continues with.
C20_ContinuationOrder ==
  [][PageStep =>
      LET block == page_obs'.pagination[1]
          continues == fe'.has_more
          issued == fe'.requests = fe.requests + 1
      IN  /\ issued <=> (continues /\ fe'.pages_fetched < fe.max_pages)
          /\ ~issued => (fe'.pc = "done" /\ fe'.requests = fe.requests)
          /\ (issued /\ fe'.book.t = "number") =>
               fe'.params = <<[book |-> fe'.book, page |-> fe'.page]>>
          /\ IF block.present /\ block.next # <<>>
             THEN /\ continues
                  /\ IF block.next[1].parsable
                     THEN /\ fe'.book = IF block.next[1].book.t = "number"
                                        THEN block.next[1].book ELSE fe.book
                          /\ fe'.page = IF block.next[1].page.t = "number"
                                        THEN block.next[1].page.n ELSE fe.page
                     ELSE /\ fe'.page = fe.page + 1
                          /\ fe'.book = fe.book
             ELSE IF block.present /\ block.hasMore # <<>>
             THEN continues = block.hasMore[1]
             ELSE ~continues /\ ~issued]_vars

\* A page whose block holds a next locator and a false hasMore flag was
\* followed by a request with the book and the page of the locator
C20_Witness ==
  /\ fe.pc = "awaiting"
  /\ page_obs.pagination = <<PaginationNextAndFlag(TRUE, FALSE)>>
  /\ fe.params = <<[book |-> Num(123), page |-> 2]>>

\* C24: within one fetchEvents call, every continuation step changes what
\* is requested: the request that follows a page carries other book/page
\* parameters than the request that fetched the page.
C24_NextRequestDiffers ==
  [][(PageStep /\ fe'.pc = "awaiting") => fe'.params # fe.params]_vars


(***************************************************************************)
(* extractEndpointPath on two endpoints, the second a variation of the     *)
(* first in one segment and in the query                                   *)
(***************************************************************************)
Segments == {"event", "events", "contact", "contacts", "123", "456", ""}
Queries == {"", "book=123&page=2"}

RECURSIVE SegmentSeqs(_)
SegmentSeqs(n) ==
  IF n = 0 THEN {<<>>}
  ELSE LET shorter == SegmentSeqs(n - 1)
       IN shorter \cup {Append(q, x) : q \in {r \in shorter : Len(r) = n - 1},
                                        x \in Segments}

ShapeEndpoints ==
  {Endpoint(segs, query) : segs \in SegmentSeqs(MaxSegments), query \in Queries}

InitShape ==
  /\ InitClient /\ InitCalIdle /\ InitNormIdle /\ InitAppIdle
  /\ fr = IdleResources
  /\ modal = NoModal
  /\ hash_call = NoHashCall
  /\ \E endpoint \in ShapeEndpoints :
       shape_call = <<[endpoint |-> endpoint]>>

\* The first endpoint and a variation of it go through extractEndpointPath
CallExtractEndpointPath ==
  /\ shape_call # <<>>
  /\ DOMAIN shape_call[1] = {"endpoint"}
  /\ LET a == shape_call[1].endpoint IN
     \E i \in 0..Len(a.segs), x \in Segments, query \in Queries :
       LET b == Endpoint([j \in DOMAIN a.segs |-> IF j = i THEN x ELSE a.segs[j]],
                         query)
       IN shape_call' = <<[a |-> a, b |-> b,
                           shape_a |-> extractEndpointPath(a),
                           shape_b |-> extractEndpointPath(b)]>>
  /\ UNCHANGED <<clientVars, reqlog, fe, fc, normVars, appVars, viewVars,
                 page_obs, fr, modal, hash_call>>

NextShape == CallExtractEndpointPath
SpecShape == InitShape /\ [][NextShape]_vars

ShapeDone == shape_call # <<>> /\ "shape_a" \in DOMAIN shape_call[1]

\* The segments of a path: what stands between its slashes
PathSegments(endpoint) == SelectSeq(endpoint.segs, LAMBDA x : x # "")

\* Segment i of the path is an identifier segment
IsIdentifierSegment(segs, i) ==
  /\ i > 1
  /\ segs[i - 1] \in {"event", "contact", "resource", "location"}
  /\ segs[i] \notin {"events", "event", "resources", "resource",
                      "contacts", "contact", "locations", "location"}

\* Two paths differ only in identifier segments
DifferOnlyInIdentifiers(p, q) ==
  /\ Len(p) = Len(q)
  /\ \A i \in DOMAIN p :
       p[i] # q[i] => IsIdentifierSegment(p, i) /\ IsIdentifierSegment(q, i)

\* C21: the shape of an endpoint ignores the query string, holds the one
\* placeholder for every segment that directly follows event, contact,
\* resource or location and is no endpoint keyword, and holds every other
\* segment as it is; two paths that differ only in such identifier
\* segments have the same shape, and /events and /event/{id} have
\* different shapes.
C21_ShapeReplacesIdentifierSegments ==
  ShapeDone =>
    LET c == shape_call[1]
        p == PathSegments(c.a)
        q == PathSegments(c.b)
    IN  /\ Len(c.shape_a) = Len(p)
        /\ \A i \in DOMAIN p :
             c.shape_a[i] = IF IsIdentifierSegment(p, i) THEN "{id}" ELSE p[i]
        /\ c.shape_a = extractEndpointPath(Endpoint(c.a.segs, ""))
        /\ DifferOnlyInIdentifiers(p, q) => c.shape_a = c.shape_b
        /\ (p = <<"events">> /\ Len(q) = 2 /\ q[1] = "event") =>
             c.shape_a # c.shape_b

\* /event/123/contacts and /event/456/contacts with a query have one shape
C21_Witness ==
  /\ ShapeDone
  /\ PathSegments(shape_call[1].a) = <<"event", "123", "contacts">>
  /\ PathSegments(shape_call[1].b) = <<"event", "456", "contacts">>
  /\ shape_call[1].b.query # ""
  /\ shape_call[1].shape_a = <<"event", "{id}", "contacts">>
  /\ shape_call[1].shape_b = shape_call[1].shape_a

(***************************************************************************)
(* The rate guard over long runs of requests, with failing requests and a  *)
(* caller that waits                                                       *)
(***************************************************************************)
InitLimit == InitOps

\* Time passes while the caller waits
Wait ==
  /\ now < 100 + MaxWait
  /\ now' = now + 1
  /\ UNCHANGED <<clientVars, reqlog, fe, fc, raw_record, normalized, appVars,
                 calVars>>

NextLimit ==
  \/ CallFetchEventDetails
  \/ CallFetchEventResources
  \/ CallFetchEventContacts
  \/ SettleFetchEventDetails
  \/ SettleFetchEventResources
  \/ SettleFetchEventContacts
  \/ ReturnSingle
  \/ Wait

SpecLimit == InitLimit /\ [][NextLimit]_vars

\* A step in which an operation calls request()
RequestStep == call.pc = "idle" /\ call'.pc # "idle"
RejectedByGuard(frame) == frame.pc = "raised" /\ frame.cause = "guard"

\* C22: once a request of a shape has been rejected, every following
\* request of that shape is rejected, whatever time has passed, as long as
\* no request of another shape is made; a request that follows a request
\* of another shape is admitted, also when its shape was rejected before.
C22_RejectedUntilOtherShape ==
  [][RequestStep =>
      /\ (call.run.rejected /\ call'.run.shape = call.run.shape) =>
           RejectedByGuard(call')
      /\ call'.run.shape # call.run.shape =>
           (call'.pc = "awaiting" /\ ~call'.run.rejected)]_vars

\* A shape was rejected, another shape was requested, and after a wait a
\* request of the first shape is in flight again
C22_Witness ==
  /\ call.pc = "awaiting"
  /\ call.count = 9
  /\ now > 100
  /\ call.run.last_rejected = call.run.shape
  /\ call.run.requests = 1
  /\ ~call.run.rejected

\* C23: of an unbroken run of requests of one shape, the first 5 leave the
\* client, whether they then fail or not, and no later one does: a
\* rejected request is not in flight, and at most 5 HTTP requests of the
\* run have left the client.
C23_AtMostFiveLeave ==
  /\ call.run.sent <= 5
  /\ call.run.sent = (IF call.run.requests <= 5 THEN call.run.requests ELSE 5)
  /\ (call.pc # "idle" /\ call.cause = "guard") =>
       (call.pc = "raised" /\ call.run.requests > 5)
  /\ call.pc = "awaiting" => call.run.requests <= 5

\* A sixth request of a shape was rejected after an earlier request of the
\* run had failed
C23_Witness ==
  /\ RejectedByGuard(call)
  /\ call.run.requests = 6
  /\ call.run.sent = 5
  /\ call.run.failed

(***************************************************************************)
(* fetchResources, which follows hasMore without a page cap                *)
(***************************************************************************)
ResourcesEndpoint == Endpoint(<<"resources">>, "")

ResourcePaginations ==
  {PaginationAbsent, PaginationNeither, PaginationNext(TRUE, Num(123), Num(2))}
  \cup {PaginationFlag(h, b, NumUndefined) : h \in BOOLEAN, b \in ServerBooks}

ResourcesBody(has_data, data, pagination) ==
  [kind |-> "ok", has_data |-> has_data, data |-> data, pagination |-> pagination]

ResourcesBodies ==
  {ResourcesBody(d[1], d[2], p) :
     d \in {<<FALSE, <<>> >>, <<TRUE, <<>> >>,
            <<TRUE, <<RawItem(JString("room-1"), JString("Room 1"))>> >>},
     p \in ResourcePaginations}

\* A response that says more resources follow
ReportsMoreResources(response) ==
  /\ response.kind = "ok"
  /\ response.pagination.present
  /\ response.pagination.hasMore = <<TRUE>>

\* Mutant: a rejected request ends the loop with what was collected
ResourcesLoop_returns_collected(f) ==
  IF f.has_more
  THEN /\ RequestStart(ResourcesEndpoint)
       /\ fr' = IF RequestAdmitted(ResourcesEndpoint)
                THEN [f EXCEPT !.pc = "awaiting", !.requests = @ + 1, !.sent = @ + 1,
                               !.params = RequestParams(f)]
                ELSE [f EXCEPT !.pc = "done", !.requests = @ + 1,
                               !.result = <<f.all_resources>>]
  ELSE /\ fr' = [f EXCEPT !.pc = "done", !.result = <<f.all_resources>>]
       /\ UNCHANGED <<last_endpoint, consecutive_call_count>>

\* The head of the while loop: the next request is issued (and the guard
\* may reject it, which leaves fetchResources uncaught), or the call
\* returns all_resources.
ResourcesLoop(f) ==
  IF f.has_more
  THEN /\ RequestStart(ResourcesEndpoint)
       /\ fr' = IF RequestAdmitted(ResourcesEndpoint)
                THEN [f EXCEPT !.pc = "awaiting", !.requests = @ + 1, !.sent = @ + 1,
                               !.params = RequestParams(f)]
                ELSE [f EXCEPT !.pc = "failed", !.requests = @ + 1,
                               !.params = RequestParams(f),
                               !.error = RateLimitError, !.cause = "guard"]
  ELSE /\ fr' = [f EXCEPT !.pc = "done", !.result = <<f.all_resources>>]
       /\ UNCHANGED <<last_endpoint, consecutive_call_count>>

\* The body of the loop after the await
ResourcesPage(f, body) ==
  LET resources == [i \in DOMAIN DataOrEmpty(body) |->
                      normalizeResource(DataOrEmpty(body)[i])]
      collected == [f EXCEPT !.all_resources = @ \o resources]
  IN IF body.pagination.present
     THEN [collected EXCEPT
             !.book = body.pagination.book,
             !.has_more = IF body.pagination.hasMore # <<>>
                          THEN body.pagination.hasMore[1] ELSE FALSE,
             !.page = @ + 1]
     ELSE [collected EXCEPT !.has_more = FALSE]

ResourcesOthers == <<viewVars, page_obs, shape_call, modal, hash_call>>

\* fetchResources(), up to its first await
CallFetchResources ==
  /\ fr.pc = "idle"
  /\ fr.calls < MaxResourceCalls
  /\ ResourcesLoop([pc |-> "start",
                    calls |-> fr.calls + 1,
                    all_resources |-> <<>>,
                    book |-> NumUndefined,
                    page |-> 1,
                    has_more |-> TRUE,
                    requests |-> 0,
                    sent |-> 0,
                    params |-> <<>>,
                    error |-> Err("", <<>>),
                    cause |-> "",
                    result |-> <<>>,
                    all_more |-> TRUE])
  /\ UNCHANGED <<contact_cache, reqlog, fe, fc, normVars, appVars, ResourcesOthers>>

\* The awaited request of fetchResources settles with a page
FetchResourcesPage ==
  \E response \in ResourcesBodies :
    /\ fr.pc = "awaiting"
    /\ ResourcesLoop(ResourcesPage(
         [fr EXCEPT !.all_more = @ /\ ReportsMoreResources(response)],
         RequestSettle(response).body))
    /\ UNCHANGED <<contact_cache, reqlog, fe, fc, normVars, appVars, ResourcesOthers>>

\* The awaited request of fetchResources settles with an error, which
\* leaves fetchResources uncaught
FetchResourcesError ==
  \E response \in HttpErrorResponses \cup TransportFailures :
    /\ fr.pc = "awaiting"
    /\ fr' = [fr EXCEPT !.pc = "failed",
                        !.error = RequestSettle(response).error,
                        !.cause = CauseOf(response),
                        !.all_more = FALSE]
    /\ UNCHANGED <<clientVars, reqlog, fe, fc, normVars, appVars, ResourcesOthers>>

\* The caller takes the outcome of fetchResources
ReturnFetchResources ==
  /\ fr.pc \in {"done", "failed"}
  /\ fr' = [pc |-> "idle", calls |-> fr.calls]
  /\ UNCHANGED <<clientVars, reqlog, fe, fc, normVars, appVars, ResourcesOthers>>

InitResources ==
  /\ InitClient /\ InitCalIdle /\ InitNormIdle /\ InitAppIdle
  /\ shape_call = NoShapeCall
  /\ fr = IdleResources
  /\ modal = NoModal
  /\ hash_call = NoHashCall

NextResources ==
  \/ CallFetchResources
  \/ FetchResourcesPage
  \/ FetchResourcesError
  \/ ReturnFetchResources

\* The upstream answers every request and the caller's continuation runs
SpecResources ==
  InitResources /\ [][NextResources]_vars /\ WF_vars(NextResources)

ResourcesRunning == fr.pc = "awaiting"
ResourcesEnded == fr.pc \in {"done", "failed"}

\* C25: with nothing else using the client, a fetchResources call ends;
\* it has at most 5 requests in flight or answered, and when every
\* response said hasMore = true it ends with the rate guard's error and
\* returns no resources.
C25_ResourcesEndAtRateLimit ==
  /\ [](fr.pc # "idle" =>
          /\ fr.sent <= 5
          /\ fr.requests <= 6
          /\ (ResourcesEnded /\ fr.all_more) =>
               /\ fr.pc = "failed"
               /\ fr.error = RateLimitError
               /\ fr.result = <<>>)
  /\ (ResourcesRunning ~> ResourcesEnded)

\* A call answered hasMore = true five times was rejected at its sixth
\* request, with resources collected on the way
C25_Witness ==
  /\ fr.pc = "failed"
  /\ fr.all_more
  /\ fr.sent = 5
  /\ fr.requests = 6
  /\ fr.cause = "guard"
  /\ Len(fr.all_resources) > 0

(***************************************************************************)
(* C26: overlapping lookups of one name                                    *)
(***************************************************************************)
\* The lookup got the id of an exact match from the upstream
ResolvedUpstream(f) ==
  f.pc = "returned" /\ ~f.hit /\ f.sent = 1 /\ f.result.t = "string"

\* C26: for a name that resolves upstream, at most one network request is
\* issued: a call made after a lookup resolved the name issues none, and
\* no two calls for the name, overlapping or not, have each got the
\* name resolved by a request of their own.
C26_OneRequestPerResolvingName ==
  /\ \A slot \in ContactSlots :
       LET f == fc.frame[slot]
       IN (f.pc # "idle" /\ f.after_resolved) => f.sent = 0
  /\ \A s, t \in ContactSlots :
       LET f == fc.frame[s]
           g == fc.frame[t]
       IN (s # t /\ f.pc # "idle" /\ g.pc # "idle" /\ f.name = g.name) =>
            ~(ResolvedUpstream(f) /\ ResolvedUpstream(g))

(***************************************************************************)
(* C27: lookups whose exact match has no id, or an empty one               *)
(***************************************************************************)
NoIdResponses ==
  {OkResponse(<<Contact(JUndefined, "Impro Neuf")>>, PaginationAbsent),
   OkResponse(<<Contact(JString(""), "Oslo Impro Festival")>>, PaginationAbsent),
   OkResponse(<<ContactA>>, PaginationAbsent),
   OkResponse(<<ContactOslo>>, PaginationAbsent)}

InitFill == InitContact

NextFill ==
  \/ CallFindContactByName
  \/ FindContactResultFrom(NoIdResponses)
  \/ FindContactError
  \/ ReturnFindContact

SpecFill == InitFill /\ [][NextFill]_vars

\* C27: a call answered from the cache returns what the lookup that wrote
\* the cache entry returned.
C27_CacheHitReturnsWhatFillReturned ==
  \A slot \in ContactSlots :
    LET f == fc.frame[slot]
    IN (f.pc = "returned" /\ f.hit) => f.result = f.filler[1]

(***************************************************************************)
(* The booking-details modal: App's selected_event_id is its event_id      *)
(* prop, and a watcher runs fetch_event_details whenever the prop changes  *)
(***************************************************************************)
NoEvent == "<null>"

\* What fetchEventDetails and fetchEventResources give for an event
DetailsOf(event_id) == <<[id |-> event_id]>>
RoomsOf(event_id) == <<[room_of |-> event_id]>>

\* fetch_event_details, up to its await; without an event it empties the
\* state and returns
fetch_event_details(m) ==
  IF m.event_id = NoEvent
  THEN [m EXCEPT !.event_details = <<>>, !.rooms = <<>>, !.contacts = <<>>]
  ELSE [m EXCEPT !.loading = TRUE,
                 !.error = <<>>,
                 !.selections = @ + 1,
                 !.in_flight = @ \cup {[event_id |-> m.event_id, n |-> m.selections + 1]}]

ModalOthers ==
  <<clientVars, reqlog, fe, fc, normVars, appVars, viewVars, page_obs,
    shape_call, fr, hash_call>>

\* The modal is mounted without a selected event; the immediate watcher
\* has run
InitModal ==
  /\ InitClient /\ InitCalIdle /\ InitNormIdle /\ InitAppIdle
  /\ shape_call = NoShapeCall
  /\ fr = IdleResources
  /\ hash_call = NoHashCall
  /\ modal = [mounted |-> TRUE, event_id |-> NoEvent, event_details |-> <<>>,
              rooms |-> <<>>, contacts |-> <<>>, loading |-> FALSE,
              error |-> <<>>, selections |-> 0, in_flight |-> {}]

\* App.handle_event_selected, and the watcher of the prop
handle_event_selected ==
  \E event_id \in EventIds :
    /\ modal.selections < MaxSelections
    /\ event_id # modal.event_id
    /\ modal' = fetch_event_details([modal EXCEPT !.event_id = event_id])
    /\ UNCHANGED ModalOthers

\* App.handle_modal_close, and the watcher of the prop
handle_modal_close ==
  /\ modal.event_id # NoEvent
  /\ modal' = fetch_event_details([modal EXCEPT !.event_id = NoEvent])
  /\ UNCHANGED ModalOthers

\* The two requests of a fetch_event_details call have both been answered
FetchDetailsResolved ==
  \E fetch \in modal.in_flight :
    /\ modal' = [modal EXCEPT !.in_flight = @ \ {fetch},
                              !.event_details = DetailsOf(fetch.event_id),
                              !.rooms = RoomsOf(fetch.event_id),
                              !.contacts = <<>>,
                              !.loading = FALSE]
    /\ UNCHANGED ModalOthers

\* One of the two requests of a fetch_event_details call has failed
FetchDetailsRejected ==
  \E fetch \in modal.in_flight, response \in HttpErrorResponses \cup TransportFailures :
    /\ modal' = [modal EXCEPT !.in_flight = @ \ {fetch},
                              !.error = <<RequestSettle(response).error.msg>>,
                              !.event_details = <<>>,
                              !.rooms = <<>>,
                              !.contacts = <<>>,
                              !.loading = FALSE]
    /\ UNCHANGED ModalOthers

NextModal ==
  \/ handle_event_selected
  \/ handle_modal_close
  \/ FetchDetailsResolved
  \/ FetchDetailsRejected

SpecModal == InitModal /\ [][NextModal]_vars

\* C28: whenever no detail fetch is in flight, loading is false and the
\* modal holds the details and the rooms that were fetched for the current
\* event_id (nothing when that fetch failed), and holds nothing when the
\* event_id is null.
C28_ModalReflectsSelectedEvent ==
  modal.in_flight = {} =>
    /\ ~modal.loading
    /\ IF modal.event_id = NoEvent \/ modal.error # <<>>
       THEN modal.event_details = <<>> /\ modal.rooms = <<>>
       ELSE /\ modal.event_details = DetailsOf(modal.event_id)
            /\ modal.rooms = RoomsOf(modal.event_id)

(***************************************************************************)
(* filter_events_by_booker under each of the booker options                *)
(***************************************************************************)
booker_options == {"Impro Neuf", "Oslo Impro Festival", "Other"}

InitOptions ==
  /\ InitClient /\ InitAuxIdle /\ InitCalIdle /\ InitNormIdle
  /\ events \in EventLists
  /\ selected_booker = "Other"
  /\ event_contacts_map \in ContactsMaps
  /\ filter_result = <<>>

\* filter_events_by_booker(events, option, event_contacts_map) for each
\* option of the booker filter
ApplyBookerOptions ==
  /\ filter_result = <<>>
  /\ filter_result' =
       <<[option \in booker_options |->
            filter_events_by_booker(events, option, event_contacts_map)]>>
  /\ UNCHANGED <<clientVars, reqlog, fe, fc, normVars, calVars, events, selected_booker,
                 event_contacts_map>>

NextOptions == ApplyBookerOptions
SpecOptions == InitOptions /\ [][NextOptions]_vars

KeptUnder(option, event) == event \in RangeOf(filter_result[1][option])

\* C29: every event is kept under at least one of the three booker
\* options, and an event kept under 'Other' is kept under neither
\* 'Impro Neuf' nor 'Oslo Impro Festival'.
C29_EveryEventUnderSomeOption ==
  filter_result # <<>> =>
    \A i \in DOMAIN events :
      /\ \E option \in {"Impro Neuf", "Oslo Impro Festival", "Other"} :
           KeptUnder(option, events[i])
      /\ KeptUnder("Other", events[i]) =>
           /\ ~KeptUnder("Impro Neuf", events[i])
           /\ ~KeptUnder("Oslo Impro Festival", events[i])

\* An event under both named bookers next to an event under 'Other' only
C29_Witness ==
  /\ filter_result # <<>>
  /\ Len(events) = 2
  /\ KeptUnder("Impro Neuf", events[1])
  /\ KeptUnder("Oslo Impro Festival", events[1])
  /\ ~KeptUnder("Other", events[1])
  /\ KeptUnder("Other", events[2])
  /\ OwnerName(events[2]) = "Random Co"

(***************************************************************************)
(* hashString and the hue of hashNameToColor.  A number is held in two     *)
(* limbs, value = hi * 2^16 + lo with lo in 0..2^16-1, so that values      *)
(* beyond 32 bits are exact, as they are in a JavaScript number            *)
(***************************************************************************)
Limb == 65536
HalfLimb == 32768

Norm(hi, lo) == [hi |-> hi + (lo \div Limb), lo |-> lo % Limb]
NumOf(n) == Norm(0, n)
NumAdd(a, b) == Norm(a.hi + b.hi, a.lo + b.lo)

\* ToInt32: the value modulo 2^32, read as a signed 32-bit integer
ToInt32(a) ==
  LET h == a.hi % Limb
  IN [hi |-> IF h >= HalfLimb THEN h - Limb ELSE h, lo |-> a.lo]

InInt32(a) == a.hi >= 0 - HalfLimb /\ a.hi < HalfLimb

\* x << 5: the operand is taken as a 32-bit integer and so is the result
ShiftLeft5(a) ==
  LET x == ToInt32(a) IN ToInt32(Norm(x.hi * 32, x.lo * 32))

\* ((hash << 5) + hash) + str.charCodeAt(i): the additions are additions
\* of numbers
HashStep(hash, char_code) ==
  NumAdd(NumAdd(ShiftLeft5(hash), hash), NumOf(char_code))

RECURSIVE HashFrom(_, _, _)
HashFrom(hash, str, i) ==
  IF i > Len(str) THEN hash
  ELSE HashFrom(HashStep(hash, str[i]), str, i + 1)

hashString(str) == HashFrom(NumOf(5381), str, 1)

\* Math.abs(hash) % 360
NumAbs(a) == IF a.hi >= 0 THEN a ELSE Norm(0 - a.hi - 1, Limb - a.lo)
HueOf(hash) == LET b == NumAbs(hash) IN (b.hi * (Limb % 360) + b.lo) % 360

\* The names hashed: char codes of 'a', 'z' and the space
CharCodes == {97, 122, 32}

RECURSIVE CodeSeqs(_)
CodeSeqs(n) ==
  IF n = 0 THEN {<<>>}
  ELSE LET shorter == CodeSeqs(n - 1)
       IN shorter \cup {Append(q, x) : q \in {r \in shorter : Len(r) = n - 1},
                                        x \in CharCodes}

InitHash ==
  /\ InitClient /\ InitCalIdle /\ InitNormIdle /\ InitAppIdle
  /\ shape_call = NoShapeCall
  /\ fr = IdleResources
  /\ modal = NoModal
  /\ \E str \in CodeSeqs(MaxNameLen) : hash_call = <<[str |-> str]>>

\* hashNameToColor(name), up to the hue
CallHashNameToColor ==
  /\ hash_call # <<>>
  /\ DOMAIN hash_call[1] = {"str"}
  /\ LET hash == hashString(hash_call[1].str)
     IN hash_call' = <<[str |-> hash_call[1].str, hash |-> hash, hue |-> HueOf(hash)]>>
  /\ UNCHANGED <<clientVars, reqlog, fe, fc, normVars, appVars, viewVars,
                 page_obs, shape_call, fr, modal>>

NextHash == CallHashNameToColor
SpecHash == InitHash /\ [][NextHash]_vars

\* djb2 in wrapping 32-bit arithmetic: hash * 33 + charCode, brought back
\* to the signed 32-bit range after every character
RECURSIVE Djb2Wrapped(_, _, _)
Djb2Wrapped(hash, str, i) ==
  IF i > Len(str) THEN hash
  ELSE LET times33 == NumAdd(Norm(hash.hi * 32, hash.lo * 32), hash)
       IN Djb2Wrapped(ToInt32(NumAdd(times33, NumOf(str[i]))), str, i + 1)

\* C30: hashString returns the djb2 hash of its argument in wrapping 32-bit
\* arithmetic, a value of the signed 32-bit range, and the hue of
\* hashNameToColor is the hue of that value.
C30_HashIsWrappedDjb2 ==
  (hash_call # <<>> /\ "hash" \in DOMAIN hash_call[1]) =>
    LET wrapped == Djb2Wrapped(NumOf(5381), hash_call[1].str, 1)
    IN /\ hash_call[1].hash = wrapped
       /\ InInt32(hash_call[1].hash)
       /\ hash_call[1].hue = HueOf(wrapped)

====
